---- MODULE Spec2Model ----
(***************************************************************************)
(* A model of the chaincodes of learn-chaincode.                           *)
(*                                                                         *)
(*   account chaincode   src/account/accounts.go, lines 1-352              *)
(*   invoice chaincode   src/start/chaincode_start.go, lines 280-747       *)
(*                                                                         *)
(* Each chaincode is a program of its own with a world state of its own (a *)
(* key/value store reached through the shim's GetState, PutState and       *)
(* DelState).  A handler is modelled as an operator from the world state   *)
(* and the argument list to the world state it leaves and the error it     *)
(* returns ("" is Go's nil error; any other value is the error's message). *)
(* The parameter f of a handler is the number of the store call that       *)
(* fails in this invocation (0: every store call succeeds).                *)
(*                                                                         *)
(* Stored bytes are kept in decoded form: a record whose field t tells     *)
(* what the bytes are (no value, text that is no JSON document of          *)
(* interest, JSON null, a JSON array of strings, a JSON object).           *)
(* Decimal amounts are kept as the strings the code stores.                *)
(***************************************************************************)
EXTENDS Integers, Sequences, FiniteSets, TLC

VARIABLES accountState, accountCall, accountLive, invoiceState, invoiceCall,
          amountState, amountCall

amountVars == <<amountState, amountCall>>

vars == <<accountState, accountCall, accountLive, invoiceState, invoiceCall, amountVars>>

(***************************************************************************)
(* Bounds of the model.                                                    *)
(***************************************************************************)
\* Balances and amounts are whole numbers of magnitude at most MaxBal
\* (float64 arithmetic is exact on them).
MaxBal == 2
\* The account index holds at most MaxIndexLen entries.
MaxIndexLen == 2

NumRange == (0 - MaxBal) .. MaxBal

(***************************************************************************)
(* strconv: the text of a number and the number of a text.                 *)
(***************************************************************************)
RECURSIVE NumDigits(_)
NumDigits(a) == IF a < 10 THEN 1 ELSE 1 + NumDigits(a \div 10)

RECURSIVE StripZeros(_)
StripZeros(a) == IF a # 0 /\ a % 10 = 0 THEN StripZeros(a \div 10) ELSE a

RECURSIVE Pow10(_)
Pow10(k) == IF k = 0 THEN 1 ELSE 10 * Pow10(k - 1)

\* The k low decimal digits of m, leading zeros kept.
RECURSIVE DigitsStr(_, _)
DigitsStr(m, k) ==
    IF k = 0 THEN "" ELSE DigitsStr(m \div 10, k - 1) \o ToString(m % 10)

Abs(x) == IF x < 0 THEN 0 - x ELSE x

\* strconv.Itoa
Itoa(x) == ToString(x)

\* strconv.FormatFloat(x, 'E', -1, 64) of a whole number x: the shortest
\* mantissa d.ddd, then E, the sign of the exponent and at least two digits.
FormatFloat(x) ==
    LET a    == Abs(x)
        e    == NumDigits(a) - 1
        m    == StripZeros(a)
        k    == NumDigits(m)
        lead == m \div Pow10(k - 1)
        frac == m % Pow10(k - 1)
    IN  (IF x < 0 THEN "-" ELSE "")
        \o ToString(lead)
        \o (IF k > 1 THEN "." \o DigitsStr(frac, k - 1) ELSE "")
        \o "E+"
        \o (IF e < 10 THEN DigitsStr(e, 2) ELSE ToString(e))

\* The texts of the numbers of the model, computed once.
DecimalText == [n \in NumRange |-> ToString(n)]
FloatText == [n \in NumRange |-> FormatFloat(n)]

\* strconv.Atoi: the decimal integer literals.
Atoi(s) ==
    IF \E n \in NumRange : s = DecimalText[n]
    THEN [ok |-> TRUE, val |-> CHOOSE n \in NumRange : s = DecimalText[n]]
    ELSE [ok |-> FALSE, val |-> 0]

\* strconv.ParseFloat(s, 64) on the texts of the model: a decimal integer
\* literal or the E form of a number parses to that number; anything else
\* (the empty string included) is a syntax error.
ParseFloat(s) ==
    IF \E n \in NumRange : s = DecimalText[n] \/ s = FloatText[n]
    THEN [ok |-> TRUE,
          val |-> CHOOSE n \in NumRange : s = DecimalText[n] \/ s = FloatText[n]]
    ELSE [ok |-> FALSE, val |-> 0]

ParseFloatError(s) == "strconv.ParseFloat: parsing \"" \o s \o "\": invalid syntax"

\* strings.ToLower on the owner names of the model.
ToLower(s) == IF s = "Bob" THEN "bob" ELSE s

(***************************************************************************)
(* Stored bytes, decoded.                                                  *)
(***************************************************************************)
Nil == [t |-> "nil"]
Raw(s) == [t |-> "raw", s |-> s]
JsonNull == [t |-> "null"]
JsonList(items) == [t |-> "list", items |-> items]

\* A handler's return: the world state it leaves and its error.
Ok(st) == [st |-> st, err |-> ""]
Fail(st, msg) == [st |-> st, err |-> msg]

\* The message of an error returned by the store itself.
StoreError == "store error"

PanicIndex == "panic: runtime error: index out of range"

(***************************************************************************)
(* The account chaincode.                                                  *)
(***************************************************************************)
accountIndexStr == "_accountindex"

AccountNos == {"a1", "a2"}
AccountKeys == AccountNos \cup {accountIndexStr, "test_key"}

\* json.Marshal of an Account.
MarshalAccount(a) ==
    [t |-> "account", accountno |-> a.AccountNo, legalentity |-> a.LegalEntity,
     currency |-> a.Currency, balance |-> a.Balance]

\* res := Account{}; json.Unmarshal(bytes, &res) with the error dropped:
\* bytes that are no JSON object leave res the zero Account.
UnmarshalAccount(v) ==
    IF v.t = "account"
    THEN [AccountNo |-> v.accountno, LegalEntity |-> v.legalentity,
          Currency |-> v.currency, Balance |-> v.balance]
    ELSE [AccountNo |-> "", LegalEntity |-> "", Currency |-> "", Balance |-> ""]

\* var accountIndex []string; json.Unmarshal(bytes, &accountIndex) with the
\* error dropped: bytes that are no JSON array leave the slice nil.
UnmarshalStrings(v) ==
    IF v.t = "list" THEN [nil |-> FALSE, items |-> v.items]
    ELSE [nil |-> TRUE, items |-> <<>>]

\* json.Marshal of a []string: a nil slice is JSON null.
MarshalStrings(s) == IF s.nil THEN JsonNull ELSE JsonList(s.items)

\* []byte(value) of a written string, decoded: the values written in the
\* model are text that is no JSON document.
\* The text of the record of account a2 as init_account builds it.
ForeignAccountText ==
    "{\"accountno\": \"a2\", \"legalentity\": \"bob\", \"currency\": \"USD\", \"balance\": \"1E+00\"}"

BytesOf(s) ==
    IF s = ForeignAccountText
    THEN MarshalAccount([AccountNo |-> "a2", LegalEntity |-> "bob",
                         Currency |-> "USD", Balance |-> "1E+00"])
    ELSE Raw(s)

\* The index of the first entry of seq equal to name, 0 when there is none.
FirstIndexOf(seq, name) ==
    IF \E i \in 1..Len(seq) : seq[i] = name
    THEN CHOOSE i \in 1..Len(seq) :
            seq[i] = name /\ \A j \in 1..(i - 1) : seq[j] # name
    ELSE 0

\* append(accountIndex[:i], accountIndex[i+1:]...)
RemoveAt(seq, i) == SubSeq(seq, 1, i - 1) \o SubSeq(seq, i + 1, Len(seq))

AccountChaincodeInit(st, args, f) ==
    IF Len(args) # 1
    THEN Fail(st, "Incorrect number of arguments. Expecting 1")
    ELSE LET Aval == Atoi(args[1]) IN
    IF ~Aval.ok
    THEN Fail(st, "Expecting integer value for asset holding")
    ELSE IF f = 1 THEN Fail(st, StoreError)
    ELSE LET st1 == [st EXCEPT !["test_key"] = Raw(Itoa(Aval.val))] IN
    IF f = 2 THEN Fail(st1, StoreError)
    ELSE Ok([st1 EXCEPT ![accountIndexStr] = JsonNull])

Delete(st, args, f) ==
    IF Len(args) # 1
    THEN Fail(st, "Incorrect number of arguments. Expecting 1")
    ELSE LET name == args[1] IN
    IF f = 1 THEN Fail(st, "Failed to delete state")
    ELSE LET st1 == [st EXCEPT ![name] = Nil] IN
    IF f = 2 THEN Fail(st1, "Failed to get marble index")
    ELSE LET accountIndex == UnmarshalStrings(st1[accountIndexStr])
             i == FirstIndexOf(accountIndex.items, name)
             kept == IF i = 0 THEN accountIndex
                     ELSE [nil |-> FALSE, items |-> RemoveAt(accountIndex.items, i)]
         IN  \* the error of the last PutState is dropped
             IF f = 3 THEN Ok(st1)
             ELSE Ok([st1 EXCEPT ![accountIndexStr] = MarshalStrings(kept)])

Write(st, args, f) ==
    IF Len(args) # 2
    THEN Fail(st, "Incorrect number of arguments. Expecting 2. name of the variable and value to set")
    ELSE IF f = 1 THEN Fail(st, StoreError)
    ELSE Ok([st EXCEPT ![args[1]] = BytesOf(args[2])])

\* A slip in the existence test: every stored account record counts as the
\* account, whatever number it carries.
AccountExistsAnyNumber(res, accountNo) == res.AccountNo # ""

\* A slip in init_account: the new account number is put in front of the index.
PrependIndex(items, accountNo) == <<accountNo>> \o items

\* accountIndex = append(accountIndex, accountNo)
AppendIndex(items, accountNo) == Append(items, accountNo)

\* A slip in init_account: the error of strconv.ParseFloat is never looked at.
ParseFailedNever(parsed) == FALSE

\* ammount, err := strconv.ParseFloat(args[3],64); if err != nil
ParseFailed(parsed) == ~parsed.ok

\* if res.AccountNo == accountNo: the account exists
AccountExists(res, accountNo) == res.AccountNo = accountNo

init_account(st, args, f) ==
    IF Len(args) # 4
    THEN Fail(st, "Incorrect number of arguments. Expecting 4")
    ELSE IF Len(args[1]) <= 0 THEN Fail(st, "1st argument must be a non-empty string")
    ELSE IF Len(args[2]) <= 0 THEN Fail(st, "2nd argument must be a non-empty string")
    ELSE IF Len(args[3]) <= 0 THEN Fail(st, "3rd argument must be a non-empty string")
    ELSE IF Len(args[4]) <= 0 THEN Fail(st, "3rd argument must be a non-empty string")
    ELSE LET accountNo   == args[1]
             legalEntity == ToLower(args[2])
             currency    == args[3]
             ammount     == ParseFloat(args[4])
         IN
    IF ParseFailed(ammount) THEN Fail(st, "4rd argument must be a numeric string")
    ELSE IF f = 1 THEN Fail(st, "Failed to get account number")
    ELSE LET res == UnmarshalAccount(st[accountNo]) IN
    IF AccountExists(res, accountNo) THEN Fail(st, "This account arleady exists")
    ELSE LET amountStr == FormatFloat(ammount.val)
             str == MarshalAccount([AccountNo |-> accountNo, LegalEntity |-> legalEntity,
                                    Currency |-> currency, Balance |-> amountStr])
         IN
    IF f = 2 THEN Fail(st, StoreError)
    ELSE LET st1 == [st EXCEPT ![accountNo] = str] IN
    IF f = 3 THEN Fail(st1, "Failed to get account index")
    ELSE LET accountIndex == UnmarshalStrings(st1[accountIndexStr])
             appended == [nil |-> FALSE, items |-> AppendIndex(accountIndex.items, accountNo)]
         IN  \* the error of the last PutState is dropped
             IF f = 4 THEN Ok(st1)
             ELSE Ok([st1 EXCEPT ![accountIndexStr] = MarshalStrings(appended)])

\* A slip in the sufficiency test: the operands the wrong way round.
InsufficientReversed(BalanceA, amount) == (amount - BalanceA) < 0

\* if (BalanceA - amount) < 0
Insufficient(BalanceA, amount) == (BalanceA - amount) < 0

InsufficientMessage(from) == from \o " doesn't have enough balance to complete transaction"

transfer_balance(st, args, f) ==
    IF Len(args) < 3
    THEN Fail(st, "Incorrect number of arguments. Expecting 3")
    ELSE LET amount == ParseFloat(args[3]) IN
    IF ~amount.ok THEN Fail(st, "3rd argument must be a numeric string")
    ELSE IF f = 1 THEN Fail(st, "Failed to get the first account")
    ELSE LET resA == UnmarshalAccount(st[args[1]]) IN
    IF f = 2 THEN Fail(st, "Failed to get the second account")
    ELSE LET resB == UnmarshalAccount(st[args[2]])
             BalanceA == ParseFloat(resA.Balance)
             BalanceB == ParseFloat(resB.Balance)
         IN
    IF ~BalanceA.ok THEN Fail(st, ParseFloatError(resA.Balance))
    ELSE IF ~BalanceB.ok THEN Fail(st, ParseFloatError(resB.Balance))
    ELSE IF Insufficient(BalanceA.val, amount.val)
    THEN Fail(st, InsufficientMessage(args[1]))
    ELSE LET newAmountA == BalanceA.val - amount.val
             newAmountB == BalanceB.val + amount.val
             newA == [resA EXCEPT !.Balance = FormatFloat(newAmountA)]
             newB == [resB EXCEPT !.Balance = FormatFloat(newAmountB)]
         IN
    IF f = 3 THEN Fail(st, StoreError)
    ELSE LET st1 == [st EXCEPT ![args[1]] = MarshalAccount(newA)] IN
    IF f = 4 THEN Fail(st1, StoreError)
    ELSE Ok([st1 EXCEPT ![args[2]] = MarshalAccount(newB)])

\* Invoke of the account chaincode: the dispatch on the function name.
AccountInvoke(st, function, args, f) ==
    IF function = "init" THEN AccountChaincodeInit(st, args, f)
    ELSE IF function = "delete" THEN Delete(st, args, f)
    ELSE IF function = "write" THEN Write(st, args, f)
    ELSE IF function = "init_account" THEN init_account(st, args, f)
    ELSE IF function = "transfer_balance" THEN transfer_balance(st, args, f)
    ELSE Fail(st, "Received unknown function invocation")

(***************************************************************************)
(* The key/amount chaincode: the store holds, under the name of a user, the *)
(* text of that user's amount. It is in src twice. In src/unnamed/part_000  *)
(* Invoke dispatches "init" and "write" only, and nothing calls the methods *)
(* init_amount and transfer. In src/start/chaincode_start.go (lines 1-279)  *)
(* Invoke dispatches them; the definitions of that file carry the           *)
(* suffix Start.                                                            *)
(***************************************************************************)
AmountUsers == {"alice", "bob"}
AmountKeys == AmountUsers \cup {"test_key", "testKey"}

AmountChaincodeInit(st, args, f) ==
    IF Len(args) # 1
    THEN Fail(st, "Incorrect number of arguments. Expecting 1")
    ELSE IF f = 1 THEN Fail(st, StoreError)
    ELSE Ok([st EXCEPT !["test_key"] = Raw(args[1])])

write(st, args, f) ==
    IF Len(args) # 2
    THEN Fail(st, "Incorrect number of arguments. Expecting 2. name of the key and value to set")
    ELSE IF f = 1 THEN Fail(st, StoreError)
    ELSE Ok([st EXCEPT ![args[1]] = Raw(args[2])])

init_amount(st, args, f) ==
    IF Len(args) # 2
    THEN Fail(st, "Incorrect number of arguments. Expecting 2")
    ELSE IF Len(args[1]) <= 0 THEN Fail(st, "1st argument must be a non-empty string")
    ELSE IF Len(args[2]) <= 0 THEN Fail(st, "2nd argument must be a non-empty string")
    ELSE LET name == args[1]
             amount == ParseFloat(args[2])
         IN
    IF ~amount.ok THEN Fail(st, "2nd argument must be a numeric string")
    ELSE LET amountStr == FormatFloat(amount.val) IN
    IF f = 1 THEN Fail(st, StoreError)
    ELSE Ok([st EXCEPT ![name] = Raw(amountStr)])

\* string(amountByteA[:]): the text of the stored bytes, empty when none are.
TextOf(v) == IF v.t = "raw" THEN v.s ELSE ""

FailedToGetState(key) == "{\"Error\":\"Failed to get state for " \o key \o "\"}"

\* err = stub.PutState(args[1], []byte(newAmountStrB))
SecondPutKey(args) == args[2]

transfer(st, args, f) ==
    IF Len(args) # 3
    THEN Fail(st, "Incorrect number of arguments. Expecting 3")
    ELSE LET userA == args[1]
             userB == args[2]
             amount == ParseFloat(args[3])
         IN
    IF ~amount.ok THEN Fail(st, "3rd argument must be a numeric string")
    ELSE IF f = 1 THEN Fail(st, FailedToGetState(userA))
    ELSE IF f = 2 THEN Fail(st, FailedToGetState(userB))
    ELSE LET amountStrA == TextOf(st[userA])
             amountStrB == TextOf(st[userB])
             amountA == ParseFloat(amountStrA)
             amountB == ParseFloat(amountStrB)
         IN
    IF ~amountA.ok THEN Fail(st, ParseFloatError(amountStrA))
    ELSE IF ~amountB.ok THEN Fail(st, ParseFloatError(amountStrB))
    ELSE IF (amountA.val - amount.val) < 0
    THEN Fail(st, InsufficientMessage(args[1]))
    ELSE LET newAmountA == amountA.val - amount.val
             newAmountB == amountB.val + amount.val
             newAmountStrA == FormatFloat(newAmountA)
             newAmountStrB == FormatFloat(newAmountB)
         IN
    IF f = 3 THEN Fail(st, StoreError)
    ELSE LET st1 == [st EXCEPT ![args[1]] = Raw(newAmountStrA)] IN
    IF f = 4 THEN Fail(st1, StoreError)
    ELSE Ok([st1 EXCEPT ![SecondPutKey(args)] = Raw(newAmountStrB)])

\* Invoke of src/unnamed/part_000: "init" and "write"; every other name,
\* "init_amount" and "transfer" included, is an unknown function.
AmountInvoke(st, function, args, f) ==
    IF function = "init" THEN AmountChaincodeInit(st, args, f)
    ELSE IF function = "write" THEN write(st, args, f)
    ELSE Fail(st, "Received unknown function invocation: " \o function)

\* Init of src/start/chaincode_start.go: the argument is read as an integer
\* and stored, written back as decimal text, under "testKey".
InitStart(st, args, f) ==
    IF Len(args) # 1
    THEN Fail(st, "Incorrect number of arguments. Expecting 1")
    ELSE LET Aval == Atoi(args[1]) IN
    IF ~Aval.ok THEN Fail(st, "Expecting integer value for asset holding")
    ELSE IF f = 1 THEN Fail(st, StoreError)
    ELSE Ok([st EXCEPT !["testKey"] = Raw(Itoa(Aval.val))])

DeleteStart(st, args, f) ==
    IF Len(args) # 1
    THEN Fail(st, "Incorrect number of arguments. Expecting 1")
    ELSE IF f = 1 THEN Fail(st, "Failed to delete state")
    ELSE Ok([st EXCEPT ![args[1]] = Nil])

WriteStart(st, args, f) ==
    IF Len(args) # 2
    THEN Fail(st, "Incorrect number of arguments. Expecting 2. name of the variable and value to set")
    ELSE IF f = 1 THEN Fail(st, StoreError)
    ELSE Ok([st EXCEPT ![args[1]] = Raw(args[2])])

\* init_amount of src/start/chaincode_start.go parses args[2] of a list that
\* has passed len(args) != 2: the index is out of range on every call that
\* comes this far, and the put after it is never reached.
init_amountStart(st, args, f) ==
    IF Len(args) # 2
    THEN Fail(st, "Incorrect number of arguments. Expecting 2")
    ELSE IF Len(args[1]) <= 0 THEN Fail(st, "1st argument must be a non-empty string")
    ELSE IF Len(args[2]) <= 0 THEN Fail(st, "2nd argument must be a non-empty string")
    ELSE IF Len(args) < 3 THEN Fail(st, PanicIndex)
    ELSE LET name == args[1]
             amount == ParseFloat(args[3])
         IN
    IF ~amount.ok THEN Fail(st, "2nd argument must be a numeric string")
    ELSE LET amountStr == FormatFloat(amount.val) IN
    IF f = 1 THEN Fail(st, StoreError)
    ELSE Ok([st EXCEPT ![name] = Raw(amountStr)])

\* transfer of src/start/chaincode_start.go: it takes three arguments or
\* more, and both puts go to args[0], the second over the first.
transferStart(st, args, f) ==
    IF Len(args) < 3
    THEN Fail(st, "Incorrect number of arguments. Expecting 3")
    ELSE LET userA == args[1]
             userB == args[2]
             amount == ParseFloat(args[3])
         IN
    IF ~amount.ok THEN Fail(st, "3rd argument must be a numeric string")
    ELSE IF f = 1 THEN Fail(st, FailedToGetState(userA))
    ELSE IF f = 2 THEN Fail(st, FailedToGetState(userB))
    ELSE LET amountStrA == TextOf(st[userA])
             amountStrB == TextOf(st[userB])
             amountA == ParseFloat(amountStrA)
             amountB == ParseFloat(amountStrB)
         IN
    IF ~amountA.ok THEN Fail(st, ParseFloatError(amountStrA))
    ELSE IF ~amountB.ok THEN Fail(st, ParseFloatError(amountStrB))
    ELSE IF (amountA.val - amount.val) < 0
    THEN Fail(st, InsufficientMessage(args[1]))
    ELSE LET newAmountA == amountA.val - amount.val
             newAmountB == amountB.val + amount.val
             newAmountStrA == FormatFloat(newAmountA)
             newAmountStrB == FormatFloat(newAmountB)
         IN
    IF f = 3 THEN Fail(st, StoreError)
    ELSE LET st1 == [st EXCEPT ![args[1]] = Raw(newAmountStrA)] IN
    IF f = 4 THEN Fail(st1, StoreError)
    ELSE Ok([st1 EXCEPT ![args[1]] = Raw(newAmountStrB)])

\* Invoke of src/start/chaincode_start.go
InvokeStart(st, function, args, f) ==
    IF function = "init" THEN InitStart(st, args, f)
    ELSE IF function = "delete" THEN DeleteStart(st, args, f)
    ELSE IF function = "write" THEN WriteStart(st, args, f)
    ELSE IF function = "init_amount" THEN init_amountStart(st, args, f)
    ELSE IF function = "transfer" THEN transferStart(st, args, f)
    ELSE Fail(st, "Received unknown function invocation")

(***************************************************************************)
(* The store calls an invocation of the account chaincode makes, in the     *)
(* order the handler makes them, when none of them fails.                   *)
(***************************************************************************)
GetState(key) == [op |-> "GetState", key |-> key]
PutState(key) == [op |-> "PutState", key |-> key]
DelState(key) == [op |-> "DelState", key |-> key]

InitStoreCalls(st, args) ==
    IF Len(args) # 1 \/ ~Atoi(args[1]).ok THEN <<>>
    ELSE <<PutState("test_key"), PutState(accountIndexStr)>>

DeleteStoreCalls(st, args) ==
    IF Len(args) # 1 THEN <<>>
    ELSE <<DelState(args[1]), GetState(accountIndexStr), PutState(accountIndexStr)>>

WriteStoreCalls(st, args) ==
    IF Len(args) # 2 THEN <<>>
    ELSE <<PutState(args[1])>>

init_accountStoreCalls(st, args) ==
    IF Len(args) # 4 THEN <<>>
    ELSE IF \E i \in 1..4 : Len(args[i]) <= 0 THEN <<>>
    ELSE IF ParseFailed(ParseFloat(args[4])) THEN <<>>
    ELSE IF AccountExists(UnmarshalAccount(st[args[1]]), args[1])
    THEN <<GetState(args[1])>>
    ELSE <<GetState(args[1]), PutState(args[1]),
           GetState(accountIndexStr), PutState(accountIndexStr)>>

transfer_balanceStoreCalls(st, args) ==
    IF Len(args) < 3 THEN <<>>
    ELSE LET amount == ParseFloat(args[3]) IN
    IF ~amount.ok THEN <<>>
    ELSE LET BalanceA == ParseFloat(UnmarshalAccount(st[args[1]]).Balance)
             BalanceB == ParseFloat(UnmarshalAccount(st[args[2]]).Balance)
         IN
    IF ~BalanceA.ok \/ ~BalanceB.ok THEN <<GetState(args[1]), GetState(args[2])>>
    ELSE IF Insufficient(BalanceA.val, amount.val)
    THEN <<GetState(args[1]), GetState(args[2])>>
    ELSE <<GetState(args[1]), GetState(args[2]), PutState(args[1]), PutState(args[2])>>

AccountStoreCalls(st, function, args) ==
    IF function = "init" THEN InitStoreCalls(st, args)
    ELSE IF function = "delete" THEN DeleteStoreCalls(st, args)
    ELSE IF function = "write" THEN WriteStoreCalls(st, args)
    ELSE IF function = "init_account" THEN init_accountStoreCalls(st, args)
    ELSE IF function = "transfer_balance" THEN transfer_balanceStoreCalls(st, args)
    ELSE <<>>

(***************************************************************************)
(* The invoice chaincode.                                                  *)
(***************************************************************************)
SUPPLIER == "supplier"
PAYER == "payer"
BUYER == "buyer"

invoiceIDsKey == "invoiceIDs"

InvoiceKeys == {"", "inv1", "inv2", invoiceIDsKey, "sup", "pay", "b1", "b2", "UNDEFINED"}

\* var inv Invoice: the zero value.
ZeroInvoice ==
    [InvoiceId |-> "", Amount |-> "", Currency |-> "", Supplier |-> "",
     Payer |-> "", DueDate |-> "", Status |-> "", Buyer |-> "", Discount |-> ""]

\* json.Marshal of an Invoice.
MarshalInvoice(inv) ==
    [t |-> "invoice", invoiceid |-> inv.InvoiceId, amount |-> inv.Amount,
     currency |-> inv.Currency, supplier |-> inv.Supplier, payer |-> inv.Payer,
     duedate |-> inv.DueDate, status |-> inv.Status, buyer |-> inv.Buyer,
     discount |-> inv.Discount]

\* json.Marshal of an Invoice_Holder (a nil list and an empty list are both
\* the empty sequence here: the code never removes an entry).
MarshalHolder(invoices) == [t |-> "holder", invoices |-> invoices]

\* json.Unmarshal(bytes, &inv): no bytes and text that is no JSON are an
\* error; a JSON object sets the fields it names (the holder names none).
UnmarshalInvoice(v) ==
    IF v.t = "invoice"
    THEN [ok |-> TRUE,
          inv |-> [InvoiceId |-> v.invoiceid, Amount |-> v.amount,
                   Currency |-> v.currency, Supplier |-> v.supplier,
                   Payer |-> v.payer, DueDate |-> v.duedate, Status |-> v.status,
                   Buyer |-> v.buyer, Discount |-> v.discount]]
    ELSE IF v.t = "holder" THEN [ok |-> TRUE, inv |-> ZeroInvoice]
    ELSE [ok |-> FALSE, inv |-> ZeroInvoice]

\* json.Unmarshal(bytes, &invoiceIDs)
UnmarshalHolder(v) ==
    IF v.t = "holder" THEN [ok |-> TRUE, invoices |-> v.invoices]
    ELSE IF v.t = "invoice" THEN [ok |-> TRUE, invoices |-> <<>>]
    ELSE [ok |-> FALSE, invoices |-> <<>>]

\* "k":"v" as json.Marshal writes a string field.
JsonMember(k, v) == "\"" \o k \o "\":\"" \o v \o "\""

RECURSIVE JsonStrings(_)
\* The elements of a []string as json.Marshal writes them, comma separated.
JsonStrings(s) ==
    IF s = <<>> THEN ""
    ELSE "\"" \o Head(s) \o "\"" \o
         (IF Len(s) = 1 THEN "" ELSE "," \o JsonStrings(Tail(s)))

\* string(bytes) of a stored value: the text json.Marshal produced for a
\* record (fields in the order of the struct; a nil list is null).
StringOf(v) ==
    IF v.t = "raw" THEN v.s
    ELSE IF v.t = "nil" THEN ""
    ELSE IF v.t = "invoice"
    THEN "{" \o JsonMember("invoiceid", v.invoiceid) \o "," \o
         JsonMember("amount", v.amount) \o "," \o
         JsonMember("currency", v.currency) \o "," \o
         JsonMember("supplier", v.supplier) \o "," \o
         JsonMember("payer", v.payer) \o "," \o
         JsonMember("duedate", v.duedate) \o "," \o
         JsonMember("status", v.status) \o "," \o
         JsonMember("buyer", v.buyer) \o "," \o
         JsonMember("discount", v.discount) \o "}"
    ELSE IF v.invoices = <<>> THEN "{\"invoices\":null}"
    ELSE "{\"invoices\":[" \o JsonStrings(v.invoices) \o "]}"

\* string(bytes) of json.Marshal(inv)
InvoiceText(inv) == StringOf(MarshalInvoice(inv))

\* string(bytes) of json.Marshal(invoiceIDs)
HolderText(invoices) == StringOf(MarshalHolder(invoices))

\* json.Marshal of an Invoice of src/account/accounts.go, whose Status is an int.
MarshalInvoice1(inv) ==
    [t |-> "invoice1", invoiceid |-> inv.InvoiceId, amount |-> inv.Amount,
     currency |-> inv.Currency, supplier |-> inv.Supplier, payer |-> inv.Payer,
     duedate |-> inv.DueDate, status |-> inv.Status, buyer |-> inv.Buyer,
     discount |-> inv.Discount]

\* string(bytes) of json.Marshal(inv): the members in the order of the struct.
InvoiceText1(inv) ==
    "{" \o JsonMember("invoiceid", inv.InvoiceId) \o "," \o
    JsonMember("amount", inv.Amount) \o "," \o
    JsonMember("currency", inv.Currency) \o "," \o
    JsonMember("supplier", inv.Supplier) \o "," \o
    JsonMember("payer", inv.Payer) \o "," \o
    JsonMember("duedate", inv.DueDate) \o "," \o
    "\"status\":" \o ToString(inv.Status) \o "," \o
    JsonMember("buyer", inv.Buyer) \o "," \o
    JsonMember("discount", inv.Discount) \o "}"

\* Invoice records a deployment may carry as the text of a name/role pair,
\* one for each state of the lifecycle (created, offered, accepted), each of
\* its own amount.
PlantedInvoices ==
    {[InvoiceId |-> "inv1", Amount |-> x[4], Currency |-> "USD",
      Supplier |-> "sup", Payer |-> "pay", DueDate |-> "UNDEFINED",
      Status |-> x[1], Buyer |-> x[2], Discount |-> x[3]] :
     x \in {<<"0", "UNDEFINED", "UNDEFINED", "100.00">>,
            <<"1", "UNDEFINED", "5.00", "200.00">>,
            <<"2", "b1", "5.00", "300.00">>}}

\* The same in the accounts.go form (Status an int).
PlantedInvoices1(id) ==
    {[InvoiceId |-> id, Amount |-> "100.00", Currency |-> "USD",
      Supplier |-> "sup", Payer |-> p, DueDate |-> "",
      Status |-> x[1], Buyer |-> x[2], Discount |-> x[3]] :
     p \in {"UNDEFINED", "pay"},
     x \in {<<0, "UNDEFINED", "UNDEFINED">>, <<2, "b1", "5.00">>}}

\* The lists of invoice ids a deployment may carry as the text of a pair.
PlantedIndexes == {<<>>, <<"inv1">>, <<"inv1", "inv2">>, <<"inv2", "inv1">>}

\* []byte(role), in the form the model keeps stored bytes in: a text that is
\* the JSON of an invoice record or of an Invoice_Holder is that record, as
\* json.Unmarshal reads it back; the role labels and other texts are no JSON.
RoleBytes(role) ==
    IF \E inv \in PlantedInvoices : role = InvoiceText(inv)
    THEN MarshalInvoice(CHOOSE inv \in PlantedInvoices : role = InvoiceText(inv))
    ELSE IF \E id \in {"inv1", "inv2"} : \E inv \in PlantedInvoices1(id) :
               role = InvoiceText1(inv)
    THEN LET id == CHOOSE id \in {"inv1", "inv2"} :
                      \E inv \in PlantedInvoices1(id) : role = InvoiceText1(inv)
         IN MarshalInvoice1(CHOOSE inv \in PlantedInvoices1(id) : role = InvoiceText1(inv))
    ELSE IF \E ids \in PlantedIndexes : role = HolderText(ids)
    THEN MarshalHolder(CHOOSE ids \in PlantedIndexes : role = HolderText(ids))
    ELSE Raw(role)


\* fmt.Sprintf("Permission Denied. <function>. %v !== %v", got, want)
PermissionDenied(function, got, want) ==
    "Permission Denied. " \o function \o ". " \o got \o " !== " \o want

\* stub.PutState(name, []byte(role)): the name and the text are the caller's,
\* neither is tested.
add_particants(st, name, role, fail) ==
    IF fail THEN Fail(st, "Error storing user " \o name \o " role: " \o role)
    ELSE Ok([st EXCEPT ![name] = RoleBytes(role)])

\* The loop of Init over the name/role pairs, from 0-based position i; the
\* result of add_particants is dropped.  Store call number 1 is the put of
\* the holder; the put of pair number p is store call p + 1.
RECURSIVE AddAll(_, _, _, _)
AddAll(st, args, i, f) ==
    IF ~(i < Len(args)) THEN Ok(st)
    ELSE IF i + 2 > Len(args) THEN Fail(st, PanicIndex)
    ELSE AddAll(add_particants(st, args[i + 1], args[i + 2], f = (i \div 2) + 2).st,
                args, i + 2, f)

InvoiceChaincodeInit(st, args, f) ==
    IF f = 1 THEN Fail(st, "Error putting state with invoiceIDs")
    ELSE AddAll([st EXCEPT ![invoiceIDsKey] = MarshalHolder(<<>>)], args, 0, f)

get_role(st, name, fail) ==
    IF fail THEN [role |-> "", err |-> "Couldn't retrieve role for user " \o name]
    ELSE [role |-> StringOf(st[name]), err |-> ""]

retrieve_invoice(st, invoiceId, fail) ==
    IF fail
    THEN [inv |-> ZeroInvoice,
          err |-> "RETRIEVE_INVOICE: Error retrieving invoice with invoice Id = " \o invoiceId]
    ELSE LET r == UnmarshalInvoice(st[invoiceId]) IN
         IF ~r.ok
         THEN [inv |-> r.inv,
               err |-> "RETRIEVE_INVOICE: Corrupt invoice record" \o StringOf(st[invoiceId])]
         ELSE [inv |-> r.inv, err |-> ""]

\* A slip in the key: the record is put under the key of the index.
save_changesOverIndex(st, inv, fail) ==
    IF fail THEN Fail(st, "Error storing invoice record")
    ELSE Ok([st EXCEPT ![invoiceIDsKey] = MarshalInvoice(inv)])

\* stub.PutState(inv.InvoiceId, bytes)
save_changes(st, inv, fail) ==
    IF fail THEN Fail(st, "Error storing invoice record")
    ELSE Ok([st EXCEPT ![inv.InvoiceId] = MarshalInvoice(inv)])

\* The text create_invoice concatenates: "{", then each member followed by
\* ", " (the last one, discount, included), then "}".
invoice_json(args) ==
    [members |-> [InvoiceId |-> args[1], Amount |-> args[2], Currency |-> "USD",
                  Supplier |-> args[3], Payer |-> args[4], DueDate |-> "UNDEFINED",
                  Status |-> "0", Buyer |-> "UNDEFINED", Discount |-> "UNDEFINED"],
     commaBeforeBrace |-> TRUE]

\* json.Unmarshal([]byte(invoice_json), &inv): encoding/json takes no "," in
\* front of the closing brace; on a syntax error inv is left as it was.
UnmarshalInvoiceText(text) ==
    IF text.commaBeforeBrace THEN [ok |-> FALSE, inv |-> ZeroInvoice]
    ELSE [ok |-> TRUE, inv |-> text.members]

create_invoice(st, args, f) ==
    IF Len(args) < 4 THEN Fail(st, PanicIndex)
    ELSE LET invoiceId == args[1]
             parsed == UnmarshalInvoiceText(invoice_json(args))
             inv == parsed.inv
         IN
    IF ~parsed.ok THEN Fail(st, "Invalid JSON object")
    \* record, err := stub.GetState(inv.InvoiceId): a failed get gives no record
    ELSE IF f # 1 /\ st[inv.InvoiceId].t # "nil" THEN Fail(st, "Invoice already exists")
    ELSE LET role == get_role(st, args[3], f = 2).role IN
    IF role # SUPPLIER THEN Fail(st, PermissionDenied("create_invoice", role, SUPPLIER))
    ELSE LET role2 == get_role(st, args[4], f = 3).role IN
    IF role2 # PAYER THEN Fail(st, PermissionDenied("create_invoice", role2, PAYER))
    ELSE LET saved == save_changes(st, inv, f = 4) IN
    IF saved.err # "" THEN Fail(st, "Error saving changes")
    ELSE IF f = 5 THEN Fail(saved.st, "Unable to get invoiceIDs")
    ELSE LET invoiceIDs == UnmarshalHolder(saved.st[invoiceIDsKey]) IN
    IF ~invoiceIDs.ok THEN Fail(saved.st, "Corrupt Invoice_Holder record")
    ELSE IF f = 6 THEN Fail(saved.st, "Unable to put the state")
    ELSE Ok([saved.st EXCEPT ![invoiceIDsKey] =
                MarshalHolder(Append(invoiceIDs.invoices, invoiceId))])

\* A slip in the ownership test: every caller passes.
CallerIsSupplierAlways(caller, inv) == TRUE

\* caller != inv.Supplier, negated: the caller is the invoice's supplier
CallerIsSupplier(caller, inv) == caller = inv.Supplier

\* A slip in the offer: the status advances and the discount is not stored.
OfferedWithoutDiscount(inv, discount) == [inv EXCEPT !.Status = "1"]

\* inv.Status = "1"; inv.Discount = args[1]
Offered(inv, discount) == [inv EXCEPT !.Status = "1", !.Discount = discount]

offer_trade(st, args, f) ==
    IF Len(args) < 3 THEN Fail(st, PanicIndex)
    ELSE LET invoiceId == args[1]
             caller == args[3]
             \* the error of retrieve_invoice is overwritten unread
             inv == retrieve_invoice(st, invoiceId, f = 1).inv
         IN
    IF ~CallerIsSupplier(caller, inv)
    THEN Fail(st, PermissionDenied("offer_trade", caller, inv.Supplier))
    ELSE LET saved == save_changes(st, Offered(inv, args[2]), f = 2) IN
    IF saved.err # "" THEN Fail(st, "Error saving changes")
    ELSE Ok(saved.st)

accept_trade(st, args, f) ==
    IF Len(args) < 2 THEN Fail(st, PanicIndex)
    ELSE LET invoiceId == args[1]
             caller == args[2]
             \* the error of retrieve_invoice is overwritten unread
             inv == retrieve_invoice(st, invoiceId, f = 1).inv
             role == get_role(st, caller, f = 2).role
         IN
    IF role # BUYER
    THEN Fail(st, PermissionDenied("offer_trade", role, BUYER))
    ELSE LET saved == save_changes(st, [inv EXCEPT !.Buyer = caller, !.Status = "2"], f = 3) IN
    IF saved.err # "" THEN Fail(st, "Error saving changes")
    ELSE Ok(saved.st)

ping(st) == Ok(st)

\* Invoke of the invoice chaincode: the dispatch on the function name.
InvoiceInvoke(st, function, args, f) ==
    IF function = "create_invoice" THEN create_invoice(st, args, f)
    ELSE IF function = "offer_trade" THEN offer_trade(st, args, f)
    ELSE IF function = "accept_trade" THEN accept_trade(st, args, f)
    ELSE ping(st)

(***************************************************************************)
(* The invoice chaincode of src/account/accounts.go (lines 353-747), an     *)
(* earlier form of the one above: the caller is the "username" attribute of *)
(* the certificate, Status is an int, and there is no payer argument. Its   *)
(* definitions carry the suffix 1. A query returns [out, err].              *)
(***************************************************************************)
Reply(out) == [out |-> out, err |-> ""]
Refuse(msg) == [out |-> "", err |-> msg]

\* var inv Invoice: the zero value, Status 0.
ZeroInvoice1 == [ZeroInvoice EXCEPT !.Status = 0]

\* json.Unmarshal(bytes, &inv): a record whose status is a string does not
\* fit the int field and is an error, as are no bytes and text that is no JSON.
UnmarshalInvoice1(v) ==
    IF v.t = "invoice1"
    THEN [ok |-> TRUE,
          inv |-> [InvoiceId |-> v.invoiceid, Amount |-> v.amount,
                   Currency |-> v.currency, Supplier |-> v.supplier,
                   Payer |-> v.payer, DueDate |-> v.duedate, Status |-> v.status,
                   Buyer |-> v.buyer, Discount |-> v.discount]]
    ELSE IF v.t = "holder" THEN [ok |-> TRUE, inv |-> ZeroInvoice1]
    ELSE [ok |-> FALSE, inv |-> ZeroInvoice1]

\* string(bytes) of a stored value.
StringOf1(v) ==
    IF v.t = "invoice1" THEN InvoiceText1(UnmarshalInvoice1(v).inv) ELSE StringOf(v)

\* get_caller_data: the error of get_username is overwritten by get_role's.
get_caller_data(st, user, fail) ==
    IF fail THEN [user |-> "", role |-> "", err |-> "Couldn't retrieve role for user " \o user]
    ELSE [user |-> user, role |-> StringOf1(st[user]), err |-> ""]

retrieve_invoice1(st, invoiceId, fail) ==
    IF fail
    THEN [inv |-> ZeroInvoice1,
          err |-> "RETRIEVE_INVOICE: Error retrieving invoice with invoice Id = " \o invoiceId]
    ELSE LET r == UnmarshalInvoice1(st[invoiceId]) IN
         IF ~r.ok
         THEN [inv |-> r.inv,
               err |-> "RETRIEVE_INVOICE: Corrupt invoice record" \o StringOf1(st[invoiceId])]
         ELSE [inv |-> r.inv, err |-> ""]

\* The JSON text create_invoice builds: ", " after every member, the last
\* included, and the status as the string "0".
invoice_json1(caller, args) ==
    [members |-> [InvoiceId |-> args[1], Amount |-> args[2], Currency |-> "USD",
                  Supplier |-> caller, Payer |-> "UNDEFINED", DueDate |-> "",
                  Status |-> 0, Buyer |-> "UNDEFINED", Discount |-> "UNDEFINED"],
     commaBeforeBrace |-> TRUE, statusIsString |-> TRUE]

\* json.Unmarshal([]byte(invoice_json), &inv): a syntax error leaves inv as it was.
UnmarshalInvoiceText1(text) ==
    IF text.commaBeforeBrace \/ text.statusIsString
    THEN [ok |-> FALSE, inv |-> ZeroInvoice1]
    ELSE [ok |-> TRUE, inv |-> text.members]

\* Store calls: 2 the get of the record, 3 the put of the record, 4 the get
\* and 5 the put of "invoiceIDs".
create_invoice1(st, caller, role, args, f) ==
    IF Len(args) < 2 THEN Fail(st, PanicIndex)
    ELSE LET invoiceId == args[1]
             parsed == UnmarshalInvoiceText1(invoice_json1(caller, args))
             inv == parsed.inv
         IN
    IF ~parsed.ok THEN Fail(st, "Invalid JSON object")
    ELSE IF f # 2 /\ st[inv.InvoiceId].t # "nil" THEN Fail(st, "Invoice already exists")
    ELSE IF role # SUPPLIER
    THEN Fail(st, "Permission Denied. create_invoice. " \o role \o " === " \o SUPPLIER)
    ELSE IF f = 3 THEN Fail(st, "Error saving changes")
    ELSE LET st1 == [st EXCEPT ![inv.InvoiceId] = MarshalInvoice1(inv)] IN
    IF f = 4 THEN Fail(st1, "Unable to get invoiceIDs")
    ELSE LET invoiceIDs == UnmarshalHolder(st1[invoiceIDsKey]) IN
    IF ~invoiceIDs.ok THEN Fail(st1, "Corrupt Invoice_Holder record")
    ELSE IF f = 5 THEN Fail(st1, "Unable to put the state")
    ELSE Ok([st1 EXCEPT ![invoiceIDsKey] =
                MarshalHolder(Append(invoiceIDs.invoices, invoiceId))])

\* Invoke: the caller's data is read first (store call 1).
Invoke1(st, user, function, args, f) ==
    LET c == get_caller_data(st, user, f = 1) IN
    IF c.err # "" THEN Fail(st, "Error retrieving caller information")
    ELSE IF function = "create_invoice" THEN create_invoice1(st, c.user, c.role, args, f)
    ELSE ping(st)

\* The view test of get_invoice_details in src/start/chaincode_start.go:
\* inv.Supplier == caller || inv.Buyer == caller || inv.Payer == caller
MayView(inv, caller) ==
    inv.Supplier = caller \/ inv.Buyer = caller \/ inv.Payer = caller

\* get_invoice_details of src/start/chaincode_start.go
get_invoice_details(inv, caller) ==
    IF MayView(inv, caller) THEN Reply(StringOf(MarshalInvoice(inv)))
    ELSE Refuse("Permission Denied. get_invoice_details")

\* inv.Supplier == caller || inv.Buyer == caller
MayView1(inv, caller) == inv.Supplier = caller \/ inv.Buyer = caller

get_invoice_details1(inv, caller) ==
    IF MayView1(inv, caller) THEN Reply(InvoiceText1(inv))
    ELSE Refuse("Permission Denied. get_invoice_details")

RECURSIVE JoinTexts(_)
\* Each text followed by ",", the last "," cut off (result[:len(result)-1]).
JoinTexts(texts) ==
    IF texts = <<>> THEN ""
    ELSE IF Len(texts) = 1 THEN Head(texts)
    ELSE Head(texts) \o "," \o JoinTexts(Tail(texts))

RECURSIVE InvoicesLoop1(_, _, _, _, _)
\* The loop of get_invoices over the ids from position i on: the texts added
\* to result, or the error of an invoice that cannot be retrieved. The get
\* of the invoice at position i is store call i + 2 of the query.
InvoicesLoop1(st, ids, i, caller, f) ==
    IF i > Len(ids) THEN [texts |-> <<>>, err |-> ""]
    ELSE LET r == retrieve_invoice1(st, ids[i], f = i + 2) IN
         IF r.err # "" THEN [texts |-> <<>>, err |-> "Failed to retrieve Invoice"]
         ELSE LET temp == get_invoice_details1(r.inv, caller)
                  rest == InvoicesLoop1(st, ids, i + 1, caller, f)
              IN IF rest.err # "" THEN rest
                 ELSE IF temp.err = ""
                 THEN [texts |-> <<temp.out>> \o rest.texts, err |-> ""]
                 ELSE rest

\* Store call 2 is the get of "invoiceIDs"; the gets of the indexed invoices
\* are the store calls 3, 4, ...
get_invoices1(st, caller, f) ==
    IF f = 2 THEN Refuse("Unable to get invoiceIDs")
    ELSE LET invoiceIDs == UnmarshalHolder(st[invoiceIDsKey]) IN
    IF ~invoiceIDs.ok THEN Refuse("Corrupt Invoice_Holder")
    ELSE LET loop == InvoicesLoop1(st, invoiceIDs.invoices, 1, caller, f) IN
    IF loop.err # "" THEN Refuse(loop.err)
    ELSE IF loop.texts = <<>> THEN Reply("[]")
    ELSE Reply("[" \o JoinTexts(loop.texts) \o "]")

\* Any error of retrieve_invoice, a failed get included, answers "true".
check_unique_invoice(st, invoiceId, fail) ==
    IF retrieve_invoice1(st, invoiceId, fail).err = ""
    THEN [out |-> "false", err |-> "invoice is not unique"]
    ELSE Reply("true")

\* read of the invoice chaincode: the bytes stored under the name.
read1(st, args, fail) ==
    IF Len(args) # 1
    THEN Refuse("Incorrect number of arguments. Expecting name of the var to query")
    ELSE IF fail THEN Refuse("{\"Error\":\"Failed to get state for " \o args[1] \o "\"}")
    ELSE Reply(StringOf1(st[args[1]]))

\* stub.ReadCertAttribute(name): the value of the attribute of the caller's
\* certificate. The certificates of the model carry one attribute,
\* "username"; another name is an error of the attribute handler.
ReadCertAttribute(user, name) ==
    IF name = "username" THEN Reply(user)
    ELSE Refuse("Error reading attribute value")

\* Query: the caller's data is read first (store call 1); the get of the
\* function called is store call 2.
Query1(st, user, function, args, f) ==
    LET c == get_caller_data(st, user, f = 1) IN
    IF c.err # "" THEN Refuse("QUERY: Error retrieving caller details: " \o c.err)
    ELSE IF function = "get_invoice_details"
    THEN IF Len(args) # 1 THEN Refuse("QUERY: Incorrect number of arguments passed")
         ELSE LET r == retrieve_invoice1(st, args[1], f = 2) IN
              IF r.err # "" THEN Refuse("QUERY: Error retrieving invoice " \o r.err)
              ELSE get_invoice_details1(r.inv, c.user)
    ELSE IF function = "check_unique_invoice"
    THEN IF Len(args) < 1 THEN Refuse(PanicIndex)
         ELSE check_unique_invoice(st, args[1], f = 2)
    ELSE IF function = "get_invoices" THEN get_invoices1(st, c.user, f)
    ELSE IF function = "read" THEN read1(st, args, f = 2)
    ELSE IF function = "get_username"
    THEN IF Len(args) < 1 THEN Refuse(PanicIndex)
         ELSE ReadCertAttribute(user, args[1])
    ELSE Reply("Hello, world!")

(***************************************************************************)
(* The queries of the invoice chaincode of src/start/chaincode_start.go.    *)
(***************************************************************************)
RECURSIVE InvoicesLoop(_, _, _, _, _)
\* The loop of get_invoices over the ids from position i on: the texts added
\* to result, or the error of an invoice that cannot be retrieved. The get
\* of the invoice at position i is store call i + 1 of the query.
InvoicesLoop(st, ids, i, caller, f) ==
    IF i > Len(ids) THEN [texts |-> <<>>, err |-> ""]
    ELSE LET r == retrieve_invoice(st, ids[i], f = i + 1) IN
         IF r.err # "" THEN [texts |-> <<>>, err |-> "Failed to retrieve Invoice"]
         ELSE LET temp == get_invoice_details(r.inv, caller)
                  rest == InvoicesLoop(st, ids, i + 1, caller, f)
              IN IF rest.err # "" THEN rest
                 ELSE IF temp.err = ""
                 THEN [texts |-> <<temp.out>> \o rest.texts, err |-> ""]
                 ELSE rest

\* Store call 1 is the get of "invoiceIDs"; var caller = args[0] follows it.
\* The gets of the indexed invoices are the store calls 2, 3, ...
get_invoices(st, args, f) ==
    IF f = 1 THEN Refuse("Unable to get invoiceIDs")
    ELSE IF Len(args) < 1 THEN Refuse(PanicIndex)
    ELSE LET invoiceIDs == UnmarshalHolder(st[invoiceIDsKey]) IN
    IF ~invoiceIDs.ok THEN Refuse("Corrupt Invoice_Holder")
    ELSE LET loop == InvoicesLoop(st, invoiceIDs.invoices, 1, args[1], f) IN
    IF loop.err # "" THEN Refuse(loop.err)
    ELSE IF loop.texts = <<>> THEN Reply("[]")
    ELSE Reply("[" \o JoinTexts(loop.texts) \o "]")

\* get_opening_trade_invoices reaches its test inv.Status == 1 with the
\* first indexed invoice that retrieve_invoice decodes. Status is a string
\* and 1 an integer constant: the Go compiler rejects the comparison
\* (mismatched types), so the source gives the test no value.
OpeningTestReached(st, f) ==
    /\ f # 1
    /\ LET invoiceIDs == UnmarshalHolder(st[invoiceIDsKey]) IN
       /\ invoiceIDs.ok
       /\ invoiceIDs.invoices # <<>>
       /\ retrieve_invoice(st, invoiceIDs.invoices[1], f = 2).err = ""

\* get_opening_trade_invoices on the calls that end before the test: store
\* call 1 is the get of "invoiceIDs", store call 2 the get of the first
\* indexed invoice. There is no case for a call that reaches the test.
get_opening_trade_invoices(st, args, f) ==
    LET invoiceIDs == UnmarshalHolder(st[invoiceIDsKey]) IN
    CASE f = 1 -> Refuse("Unable to get invoiceIDs")
      [] f # 1 /\ ~invoiceIDs.ok -> Refuse("Corrupt Invoice_Holder")
      [] f # 1 /\ invoiceIDs.ok /\ invoiceIDs.invoices = <<>> -> Reply("[]")
      [] f # 1 /\ invoiceIDs.ok /\ invoiceIDs.invoices # <<>>
             /\ retrieve_invoice(st, invoiceIDs.invoices[1], f = 2).err # ""
           -> Refuse("Failed to retrieve Invoice")

\* read: the bytes stored under the name.
read(st, args, f) ==
    IF Len(args) # 1
    THEN Refuse("Incorrect number of arguments. Expecting name of the var to query")
    ELSE IF f = 1 THEN Refuse("{\"Error\":\"Failed to get state for " \o args[1] \o "\"}")
    ELSE Reply(StringOf(st[args[1]]))

\* Query: the dispatch on the function name; user is the "username" attribute
\* of the caller's certificate.
Query(st, user, function, args, f) ==
    IF function = "get_invoice_details"
    THEN IF Len(args) # 2 THEN Refuse("QUERY: Incorrect number of arguments passed")
         ELSE LET r == retrieve_invoice(st, args[1], f = 1) IN
              IF r.err # "" THEN Refuse("QUERY: Error retrieving invoice " \o r.err)
              ELSE get_invoice_details(r.inv, args[2])
    ELSE IF function = "get_invoices" THEN get_invoices(st, args, f)
    ELSE IF function = "get_opening_trade_invoices"
    THEN get_opening_trade_invoices(st, args, f)
    ELSE IF function = "read" THEN read(st, args, f)
    ELSE IF function = "get_username" THEN ReadCertAttribute(user, "username")
    ELSE Reply("Hello, world!")

(***************************************************************************)
(* The calls of the model and the two specifications.                      *)
(***************************************************************************)
EmptyAccountState == [k \in AccountKeys |-> Nil]
EmptyInvoiceState == [k \in InvoiceKeys |-> Nil]

\* The argument lists the account chaincode is called with.
BalanceTexts == {"-1", "0", "1"}
AmountTexts == {"-1", "0", "1", "2", "abc"}
InitArgs == {<<"1">>, <<"abc">>, <<>>}
DeleteArgs == {<<k>> : k \in AccountNos} \cup {<<>>}
WriteArgs ==
    {<<k, "junk">> : k \in AccountNos}
    \cup {<<accountIndexStr, "junk">>, <<"a1">>}
InitAccountArgs ==
    {<<no, "Bob", "USD", b>> : no \in AccountNos, b \in BalanceTexts}
    \cup {<<"", "Bob", "USD", "1">>, <<"a1", "", "USD", "1">>, <<"a1", "Bob", "", "1">>,
          <<"a1", "Bob", "USD", "">>, <<"a1", "Bob", "USD", "abc">>, <<"a1", "Bob", "USD">>}
TransferArgs ==
    {<<a, b, m>> : a \in AccountNos, b \in AccountNos, m \in AmountTexts}
    \cup {<<"a1", "a2">>, <<"a1", "a2", "1", "extra">>}

\* The account index as the chaincode reads it.
AccountIndex(st) == UnmarshalStrings(st[accountIndexStr]).items

\* The balance of the account stored under key k.
Balance(st, k) == ParseFloat(UnmarshalAccount(st[k]).Balance)
IsAccount(st, k) == st[k].t = "account"

\* The states the bounds of the model allow.
WithinBounds(st) ==
    /\ \A k \in AccountKeys : IsAccount(st, k) => Balance(st, k).ok
    /\ Len(AccountIndex(st)) <= MaxIndexLen

\* One invocation of the account chaincode, every store call succeeding.
\* accountLive is the set of account numbers created by init_account and
\* not removed by Delete since.
AccountStep(function, args) ==
    LET r == AccountInvoke(accountState, function, args, 0) IN
    /\ WithinBounds(r.st)
    /\ accountState' = r.st
    /\ accountCall' = [fn |-> function, args |-> args, err |-> r.err]
    /\ accountLive' =
          IF r.err # "" THEN accountLive
          ELSE IF function = "init_account" THEN accountLive \cup {args[1]}
          ELSE IF function = "delete" THEN accountLive \ {args[1]}
          ELSE accountLive

\* Invoke("init", args): Init run again on a deployed chaincode.
AccountReinit ==
    /\ \E args \in InitArgs : AccountStep("init", args)
    /\ UNCHANGED <<invoiceState, invoiceCall, amountVars>>

AccountDelete ==
    /\ \E args \in DeleteArgs : AccountStep("delete", args)
    /\ UNCHANGED <<invoiceState, invoiceCall, amountVars>>

AccountWrite ==
    /\ \E args \in WriteArgs : AccountStep("write", args)
    /\ UNCHANGED <<invoiceState, invoiceCall, amountVars>>

AccountInitAccount ==
    /\ \E args \in InitAccountArgs : AccountStep("init_account", args)
    /\ UNCHANGED <<invoiceState, invoiceCall, amountVars>>

AccountTransferBalance ==
    /\ \E args \in TransferArgs : AccountStep("transfer_balance", args)
    /\ UNCHANGED <<invoiceState, invoiceCall, amountVars>>

\* The store calls of init_account in the order it makes them, numbered as
\* the fault parameter numbers them: GetState(accountNo), PutState(accountNo),
\* GetState(accountIndexStr), PutState(accountIndexStr).
InitAccountStoreCalls == 1..4

\* One invocation during which the store call numbered f fails (f = 0:
\* none does). The world state after it is what the store was told to hold.
AccountFaultStep(function, args, f) ==
    LET r == AccountInvoke(accountState, function, args, f) IN
    /\ WithinBounds(r.st)
    /\ accountState' = r.st
    /\ accountCall' = [fn |-> function, args |-> args, err |-> r.err, f |-> f]
    /\ accountLive' =
          IF r.err # "" THEN accountLive
          ELSE IF function = "init_account" THEN accountLive \cup {args[1]}
          ELSE IF function = "delete" THEN accountLive \ {args[1]}
          ELSE accountLive

\* Write of the record text of account a2 under the key of account a1.
WriteRecordArgs == {<<"a1", ForeignAccountText>>}

AccountWriteRecord ==
    /\ \E args \in WriteRecordArgs : AccountStep("write", args)
    /\ UNCHANGED <<invoiceState, invoiceCall, amountVars>>

\* One init_account call; the call record keeps what the key held before.
AccountInitAccountOver ==
    /\ \E args \in InitAccountArgs :
          LET r == AccountInvoke(accountState, "init_account", args, 0) IN
          /\ WithinBounds(r.st)
          /\ accountState' = r.st
          /\ accountCall' = [fn |-> "init_account", args |-> args, err |-> r.err,
                             was |-> IF Len(args) >= 1 /\ args[1] \in AccountKeys
                                     THEN accountState[args[1]] ELSE Nil]
          /\ accountLive' = IF r.err # "" THEN accountLive ELSE accountLive \cup {args[1]}
    /\ UNCHANGED <<invoiceState, invoiceCall, amountVars>>

\* The store calls of transfer_balance, numbered as the fault parameter
\* numbers them: GetState(from), GetState(to), PutState(from), PutState(to).
TransferStoreCallNumbers == 1..4

\* transfer_balance with one of its store calls failing.
AccountTransferBalanceFault ==
    /\ \E args \in TransferArgs, f \in TransferStoreCallNumbers :
          AccountFaultStep("transfer_balance", args, f)
    /\ UNCHANGED <<invoiceState, invoiceCall, amountVars>>

\* The argument lists the key/amount chaincode is called with.
InitAmountArgs ==
    {<<u, b>> : u \in AmountUsers, b \in BalanceTexts}
    \cup {<<"", "1">>, <<"alice", "">>, <<"alice", "abc">>, <<"alice">>}
AmountTransferArgs ==
    {<<a, b, m>> : a \in AmountUsers, b \in AmountUsers, m \in AmountTexts}
    \cup {<<"alice", "bob">>, <<"alice", "bob", "1", "more">>}
AmountWriteArgs ==
    {<<u, t>> : u \in AmountUsers, t \in BalanceTexts \cup {"junk"}} \cup {<<"alice">>}
AmountDeleteArgs == {<<u>> : u \in AmountUsers} \cup {<<>>}

\* The amount stored under key k.
AmountOf(st, k) == ParseFloat(TextOf(st[k]))

\* Every stored amount is a number of the model.
AmountWithinBounds(st) ==
    \A u \in AmountUsers : st[u] = Nil \/ st[u] = Raw("junk") \/ AmountOf(st, u).ok

\* One invocation of the key/amount chaincode of
\* src/start/chaincode_start.go, every store call succeeding.
AmountStep(function, args) ==
    LET r == InvokeStart(amountState, function, args, 0) IN
    /\ AmountWithinBounds(r.st)
    /\ amountState' = r.st
    /\ amountCall' = [fn |-> function, args |-> args, err |-> r.err]

\* Invoke("init") runs Init again: "testKey" is rewritten.
AmountReinit ==
    /\ \E args \in InitArgs : AmountStep("init", args)
    /\ UNCHANGED <<accountState, accountCall, accountLive, invoiceState, invoiceCall>>

AmountInitAmount ==
    /\ \E args \in InitAmountArgs : AmountStep("init_amount", args)
    /\ UNCHANGED <<accountState, accountCall, accountLive, invoiceState, invoiceCall>>

AmountTransfer ==
    /\ \E args \in AmountTransferArgs : AmountStep("transfer", args)
    /\ UNCHANGED <<accountState, accountCall, accountLive, invoiceState, invoiceCall>>

AmountWrite ==
    /\ \E args \in AmountWriteArgs : AmountStep("write", args)
    /\ UNCHANGED <<accountState, accountCall, accountLive, invoiceState, invoiceCall>>

AmountDelete ==
    /\ \E args \in AmountDeleteArgs : AmountStep("delete", args)
    /\ UNCHANGED <<accountState, accountCall, accountLive, invoiceState, invoiceCall>>

\* One invocation of the key/amount chaincode of src/unnamed/part_000, by
\* any of the function names.
AmountInvokePart ==
    /\ \E function \in {"init", "write", "init_amount", "transfer"} :
          \E args \in AmountWriteArgs \cup AmountTransferArgs \cup {<<"1">>} :
              LET r == AmountInvoke(amountState, function, args, 0) IN
              /\ amountState' = r.st
              /\ amountCall' = [fn |-> function, args |-> args, err |-> r.err]
    /\ UNCHANGED <<accountState, accountCall, accountLive, invoiceState, invoiceCall>>

\* Calls whose account number or key is the reserved key of the index.
ReservedInitAccountArgs == {<<accountIndexStr, "Bob", "USD", b>> : b \in BalanceTexts}
ReservedDeleteArgs == {<<accountIndexStr>>}

AccountInitAccountReserved ==
    /\ \E args \in ReservedInitAccountArgs : AccountStep("init_account", args)
    /\ UNCHANGED <<invoiceState, invoiceCall, amountVars>>

AccountDeleteReserved ==
    /\ \E args \in ReservedDeleteArgs : AccountStep("delete", args)
    /\ UNCHANGED <<invoiceState, invoiceCall, amountVars>>

\* The store calls of Delete, numbered as the fault parameter numbers them:
\* DelState(name), GetState(accountIndexStr), PutState(accountIndexStr).
DeleteStoreCallNumbers == 1..3

\* Delete with one of its store calls failing.
AccountDeleteFault ==
    /\ \E args \in DeleteArgs, f \in DeleteStoreCallNumbers :
          AccountFaultStep("delete", args, f)
    /\ UNCHANGED <<invoiceState, invoiceCall, amountVars>>

\* init_account with one of its store calls failing.
AccountInitAccountFault ==
    /\ \E args \in InitAccountArgs, f \in InitAccountStoreCalls :
          AccountFaultStep("init_account", args, f)
    /\ UNCHANGED <<invoiceState, invoiceCall, amountVars>>

\* The argument lists the invoice chaincode is deployed and called with.
DeployArgs ==
    {<<"sup", SUPPLIER, "pay", PAYER, "b1", BUYER, "b2", BUYER>>,
     <<"sup", SUPPLIER, "pay", PAYER, "b1", BUYER>>}
InvoiceIds == {"", "inv1", "sup"}
Callers == {"", "sup", "pay", "b1", "b2"}
Discounts == {"5.00", "7.00"}
CreateArgs ==
    {<<id, "100.00", s, p>> : id \in {"", "inv1"}, s \in {"sup", "b1"}, p \in {"pay", "b1"}}
    \cup {<<"inv1", "100.00", "sup">>}
OfferArgs ==
    {<<id, d, c>> : id \in InvoiceIds, d \in Discounts, c \in Callers}
    \cup {<<"inv1", "5.00">>}
AcceptArgs == {<<id, c>> : id \in InvoiceIds, c \in Callers} \cup {<<"inv1">>}

\* One invocation of the invoice chaincode, every store call succeeding.
InvoiceStep(function, args) ==
    LET r == InvoiceInvoke(invoiceState, function, args, 0) IN
    /\ invoiceState' = r.st
    /\ invoiceCall' = [fn |-> function, args |-> args, err |-> r.err]

InvoiceCreate ==
    /\ \E args \in CreateArgs : InvoiceStep("create_invoice", args)
    /\ UNCHANGED <<accountState, accountCall, accountLive, amountVars>>

InvoiceOffer ==
    /\ \E args \in OfferArgs : InvoiceStep("offer_trade", args)
    /\ UNCHANGED <<accountState, accountCall, accountLive, amountVars>>

InvoiceAccept ==
    /\ \E args \in AcceptArgs : InvoiceStep("accept_trade", args)
    /\ UNCHANGED <<accountState, accountCall, accountLive, amountVars>>

\* The state after deployment: Init has run with the deployment's arguments.
AmountDeployed ==
    /\ amountState = InitStart([k \in AmountKeys |-> Nil], <<"1">>, 0).st
    /\ amountCall = [fn |-> "init", args |-> <<"1">>, err |-> ""]

\* The same for the chaincode of src/unnamed/part_000.
AmountDeployedPart ==
    /\ amountState = AmountChaincodeInit([k \in AmountKeys |-> Nil], <<"1">>, 0).st
    /\ amountCall = [fn |-> "init", args |-> <<"1">>, err |-> ""]

AccountDeployed ==
    /\ accountState = AccountChaincodeInit(EmptyAccountState, <<"1">>, 0).st
    /\ accountCall = [fn |-> "init", args |-> <<"1">>, err |-> ""]
    /\ accountLive = {}

InvoiceDeployed(args) ==
    /\ invoiceState = InvoiceChaincodeInit(EmptyInvoiceState, args, 0).st
    /\ invoiceCall = [fn |-> "init", args |-> args, err |-> ""]

\* Deployments whose pairs, after the names and roles, carry the text of an
\* invoice record under "inv1" and of an index that lists it. Init stores
\* each text as it stands, the one for "invoiceIDs" over the empty holder it
\* put first.
PlantedDeployArgs ==
    {args \o <<"inv1", InvoiceText(inv), invoiceIDsKey, HolderText(<<"inv1">>)>> :
        args \in DeployArgs, inv \in PlantedInvoices}

\* The sequence create_invoice, offer_trade by the supplier, accept_trade by
\* a buyer, on one invoice id: each call follows the one before it.
ScenarioIds == {"inv1", "inv2"}
ScenarioAmounts == {"0.50", "100.00", "250.00", "999.99", "1000000"}

\* One call of the sequence; the call it follows is kept with it.
ScenarioStep(function, args) ==
    LET r == InvoiceInvoke(invoiceState, function, args, 0) IN
    /\ invoiceState' = r.st
    /\ invoiceCall' = [fn |-> function, args |-> args, err |-> r.err,
                       before |-> invoiceCall]

ScenarioCreate ==
    /\ invoiceCall.fn = "init"
    /\ \E id \in ScenarioIds : \E amount \in ScenarioAmounts :
          ScenarioStep("create_invoice", <<id, amount, "sup", "pay">>)
    /\ UNCHANGED <<accountState, accountCall, accountLive, amountVars>>

ScenarioOffer ==
    /\ invoiceCall.fn = "create_invoice"
    /\ \E d \in Discounts :
          ScenarioStep("offer_trade", <<invoiceCall.args[1], d, invoiceCall.args[3]>>)
    /\ UNCHANGED <<accountState, accountCall, accountLive, amountVars>>

ScenarioAccept ==
    /\ invoiceCall.fn = "offer_trade"
    /\ \E c \in Callers :
          /\ StringOf(invoiceState[c]) = BUYER
          /\ ScenarioStep("accept_trade", <<invoiceCall.args[1], c>>)
    /\ UNCHANGED <<accountState, accountCall, accountLive, amountVars>>

\* The pairs of a deployment that carry the texts of the invoices of an
\* index and of the index, in the accounts.go form.
PlantedPairs1(ids, inv1, inv2) ==
    (IF \E i \in 1..Len(ids) : ids[i] = "inv1"
     THEN <<"inv1", InvoiceText1(inv1)>> ELSE <<>>) \o
    (IF \E i \in 1..Len(ids) : ids[i] = "inv2"
     THEN <<"inv2", InvoiceText1(inv2)>> ELSE <<>>) \o
    <<invoiceIDsKey, HolderText(ids)>>

PlantedDeployArgs1 ==
    {args \o PlantedPairs1(ids, inv1, inv2) :
        args \in DeployArgs, ids \in PlantedIndexes,
        inv1 \in PlantedInvoices1("inv1"), inv2 \in PlantedInvoices1("inv2")}

QueryIds == {"inv1", "inv2", "sup", invoiceIDsKey}

\* One query of the accounts.go invoice chaincode by the certificate's user.
QueryStep1(user, function, args) ==
    LET r == Query1(invoiceState, user, function, args, 0) IN
    /\ invoiceCall' = [fn |-> function, args |-> args, caller |-> user,
                       err |-> r.err, out |-> r.out]
    /\ UNCHANGED invoiceState

QueryInvoiceDetails1 ==
    /\ \E user \in Callers :
          \E args \in {<<id>> : id \in QueryIds} \cup {<<>>} :
              QueryStep1(user, "get_invoice_details", args)
    /\ UNCHANGED <<accountState, accountCall, accountLive, amountVars>>

QueryInvoices1 ==
    /\ \E user \in Callers : QueryStep1(user, "get_invoices", <<>>)
    /\ UNCHANGED <<accountState, accountCall, accountLive, amountVars>>

QueryOther1 ==
    /\ \E user \in Callers :
          \/ \E function \in {"check_unique_invoice", "read", "ping"} :
                \E id \in QueryIds : QueryStep1(user, function, <<id>>)
          \/ \E args \in {<<"username">>, <<>>} : QueryStep1(user, "get_username", args)
    /\ UNCHANGED <<accountState, accountCall, accountLive, amountVars>>

InvokeCreate1 ==
    /\ \E user \in Callers :
          \E args \in {<<id, "100.00">> : id \in {"inv1", "inv2"}} \cup {<<"inv1">>} :
              LET r == Invoke1(invoiceState, user, "create_invoice", args, 0) IN
              /\ invoiceState' = r.st
              /\ invoiceCall' = [fn |-> "create_invoice", args |-> args,
                                 caller |-> user, err |-> r.err, out |-> ""]
    /\ UNCHANGED <<accountState, accountCall, accountLive, amountVars>>

\* Principals that are on no stored invoice by role: a second buyer and one
\* whose name is the text create_invoice gives an unset buyer.
Outsiders == {"b2", "UNDEFINED"}

QueryInvoiceDetailsOutsider1 ==
    /\ \E user \in Outsiders :
          \E args \in {<<id>> : id \in {"inv1", "inv2"}} :
              QueryStep1(user, "get_invoice_details", args)
    /\ UNCHANGED <<accountState, accountCall, accountLive, amountVars>>

QueryInvoicesOutsider1 ==
    /\ \E user \in Outsiders : QueryStep1(user, "get_invoices", <<>>)
    /\ UNCHANGED <<accountState, accountCall, accountLive, amountVars>>

\* One query of the invoice chaincode by the certificate's user.
QueryStep(user, function, args) ==
    LET r == Query(invoiceState, user, function, args, 0) IN
    /\ invoiceCall' = [fn |-> function, args |-> args, err |-> r.err, out |-> r.out]
    /\ UNCHANGED invoiceState

QueryInvoiceDetails ==
    /\ \E user \in Callers :
          \E args \in {<<id, c>> : id \in QueryIds, c \in Callers} \cup {<<"inv1">>} :
              QueryStep(user, "get_invoice_details", args)
    /\ UNCHANGED <<accountState, accountCall, accountLive, amountVars>>

QueryInvoices ==
    /\ \E user \in Callers :
          \E args \in {<<c>> : c \in Callers} \cup {<<>>} :
              QueryStep(user, "get_invoices", args)
    /\ UNCHANGED <<accountState, accountCall, accountLive, amountVars>>

\* The calls of get_opening_trade_invoices that end before its test.
QueryOpeningTrades ==
    /\ ~OpeningTestReached(invoiceState, 0)
    /\ \E user \in Callers :
          \E args \in {<<c>> : c \in Callers} \cup {<<>>} :
              QueryStep(user, "get_opening_trade_invoices", args)
    /\ UNCHANGED <<accountState, accountCall, accountLive, amountVars>>

QueryOther ==
    /\ \E user \in Callers :
          \/ \E function \in {"read", "ping"} :
                \E id \in QueryIds : QueryStep(user, function, <<id>>)
          \/ QueryStep(user, "get_username", <<>>)
    /\ UNCHANGED <<accountState, accountCall, accountLive, amountVars>>

InitAccount ==
    /\ AccountDeployed
    /\ AmountDeployed
    /\ InvoiceDeployed(<<"sup", SUPPLIER, "pay", PAYER, "b1", BUYER>>)

InitInvoice ==
    /\ AccountDeployed
    /\ AmountDeployed
    /\ \E args \in DeployArgs : InvoiceDeployed(args)

NextAccount ==
    \/ AccountReinit
    \/ AccountDelete
    \/ AccountWrite
    \/ AccountInitAccount
    \/ AccountTransferBalance

NextInvoice ==
    \/ InvoiceCreate
    \/ InvoiceOffer
    \/ InvoiceAccept

\* Deployed with an invoice record and its index among the pairs.
InitInvoicePlanted ==
    /\ AccountDeployed
    /\ AmountDeployed
    /\ \E args \in PlantedDeployArgs : InvoiceDeployed(args)

\* Deployed with names and roles only, or with an indexed invoice as well.
InitInvoiceQuery ==
    /\ AccountDeployed
    /\ AmountDeployed
    /\ \E args \in DeployArgs \cup PlantedDeployArgs : InvoiceDeployed(args)

NextInvoiceScenario ==
    \/ ScenarioCreate
    \/ ScenarioOffer
    \/ ScenarioAccept

\* The accounts.go chaincode deployed with indexed invoices among the pairs.
InitInvoicePlanted1 ==
    /\ AccountDeployed
    /\ AmountDeployed
    /\ \E args \in PlantedDeployArgs1 : InvoiceDeployed(args)

NextInvoiceQuery1 ==
    \/ InvokeCreate1
    \/ QueryInvoiceDetails1
    \/ QueryInvoices1
    \/ QueryOther1

\* The queries of the invoice chaincode, between offers.
NextInvoiceQuery ==
    \/ InvoiceOffer
    \/ QueryInvoiceDetails
    \/ QueryInvoices
    \/ QueryOpeningTrades
    \/ QueryOther

NextAccountLedger ==
    \/ AccountInitAccount
    \/ AccountTransferBalance

\* The calls that keep the account index: Init, init_account and Delete.
NextAccountIndex ==
    \/ AccountReinit
    \/ AccountInitAccount
    \/ AccountDelete

\* The mutating calls of a deployed account chaincode other than Init.
NextAccountMutate ==
    \/ AccountInitAccount
    \/ AccountTransferBalance
    \/ AccountDelete
    \/ AccountWrite

\* init_account and Delete, with and without store failures.
NextAccountFault ==
    \/ AccountInitAccount
    \/ AccountInitAccountFault
    \/ AccountDelete
    \/ AccountDeleteFault

SpecAccount == InitAccount /\ [][NextAccount]_vars
SpecAccountLedger == InitAccount /\ [][NextAccountLedger]_vars
SpecAccountIndex == InitAccount /\ [][NextAccountIndex]_vars
SpecAccountMutate == InitAccount /\ [][NextAccountMutate]_vars
SpecInvoice == InitInvoice /\ [][NextInvoice]_vars
\* Deployments of the invoice chaincode, one of them registering a principal
\* under the empty name.
RoleDeployArgs ==
    {<<"sup", SUPPLIER, "pay", PAYER, "b1", BUYER>>,
     <<"", BUYER, "sup", SUPPLIER, "pay", PAYER>>}

InitInvoiceRoles ==
    /\ AccountDeployed
    /\ AmountDeployed
    /\ \E args \in RoleDeployArgs : InvoiceDeployed(args)

SpecInvoiceRoles == InitInvoiceRoles /\ [][NextInvoice]_vars

\* init_account and Delete, the reserved key of the index among their keys.
NextAccountReserved ==
    \/ AccountInitAccount
    \/ AccountDelete
    \/ AccountInitAccountReserved
    \/ AccountDeleteReserved

SpecAccountReserved == InitAccount /\ [][NextAccountReserved]_vars

\* init_account over keys that Write filled with other texts.
NextAccountOverwrite ==
    \/ AccountInitAccountOver
    \/ AccountWrite
    \/ AccountWriteRecord

SpecAccountOverwrite == InitAccount /\ [][NextAccountOverwrite]_vars

\* init_account, and transfer_balance with and without store failures.
NextAccountTransferFault ==
    \/ AccountInitAccount
    \/ AccountTransferBalance
    \/ AccountTransferBalanceFault

SpecAccountTransferFault == InitAccount /\ [][NextAccountTransferFault]_vars

\* The calls of the key/amount chaincode.
NextAmount ==
    \/ AmountReinit
    \/ AmountInitAmount
    \/ AmountTransfer
    \/ AmountWrite
    \/ AmountDelete

SpecAmount == InitAccount /\ [][NextAmount]_vars

\* The key/amount chaincode of src/unnamed/part_000.
InitAmountPart ==
    /\ AccountDeployed
    /\ AmountDeployedPart
    /\ InvoiceDeployed(<<"sup", SUPPLIER, "pay", PAYER, "b1", BUYER>>)

NextAmountPart == AmountInvokePart

SpecAmountPart == InitAmountPart /\ [][NextAmountPart]_vars

\* The two invoice queries by the principals of Init and by outsiders.
NextInvoiceOutsider1 ==
    \/ QueryInvoiceDetails1
    \/ QueryInvoices1
    \/ QueryInvoiceDetailsOutsider1
    \/ QueryInvoicesOutsider1

SpecInvoiceOutsider1 == InitInvoicePlanted1 /\ [][NextInvoiceOutsider1]_vars

SpecAccountFault == InitAccount /\ [][NextAccountFault]_vars
SpecInvoiceQuery == InitInvoiceQuery /\ [][NextInvoiceQuery]_vars
SpecInvoiceQuery1 == InitInvoicePlanted1 /\ [][NextInvoiceQuery1]_vars
SpecInvoiceScenario == InitInvoice /\ [][NextInvoiceScenario]_vars
SpecInvoicePlanted == InitInvoicePlanted /\ [][NextInvoice]_vars

(***************************************************************************)
(* Properties of the account chaincode.                                    *)
(***************************************************************************)
\* The call that led to the current state, read in the state before it.
TransferCalled == accountCall'.fn = "transfer_balance"
TransferFrom == accountCall'.args[1]
TransferTo == accountCall'.args[2]

\* C1: a successful transfer_balance(from, to, amount) over two stored
\* account keys, from and to possibly the same key, leaves the sum of the
\* two accounts' balances as it was before the call (stated here for the
\* transfers of a positive amount).
C1_TransferConservesSum ==
    [][(TransferCalled /\ accountCall'.err = "" /\ ParseFloat(accountCall'.args[3]).val > 0)
        => (Balance(accountState', TransferFrom).val + Balance(accountState', TransferTo).val
            = Balance(accountState, TransferFrom).val + Balance(accountState, TransferTo).val)]_vars

\* C2: transfer_balance(from, to, amount) between two stored accounts with
\* amount greater than the balance of from fails with the insufficient-funds
\* error and leaves the world state, so both balances, as it was.
C2_InsufficientFundsRejected ==
    [][(/\ TransferCalled
        /\ Len(accountCall'.args) >= 3
        /\ ParseFloat(accountCall'.args[3]).ok
        /\ IsAccount(accountState, TransferFrom)
        /\ IsAccount(accountState, TransferTo)
        /\ ParseFloat(accountCall'.args[3]).val > Balance(accountState, TransferFrom).val)
        => (/\ accountCall'.err = InsufficientMessage(TransferFrom)
            /\ accountState' = accountState)]_vars

\* C2's case: the last call was a transfer between two stored accounts of an
\* amount greater than the balance of from, and it was refused for that.
C2_Witness ==
    /\ accountCall.fn = "transfer_balance"
    /\ Len(accountCall.args) >= 3
    /\ ParseFloat(accountCall.args[3]).ok
    /\ IsAccount(accountState, accountCall.args[1])
    /\ IsAccount(accountState, accountCall.args[2])
    /\ accountCall.args[1] # accountCall.args[2]
    /\ ParseFloat(accountCall.args[3]).val > Balance(accountState, accountCall.args[1]).val
    /\ Balance(accountState, accountCall.args[1]).val > 0
    /\ accountCall.err = InsufficientMessage(accountCall.args[1])

\* C3: every stored account has a balance >= 0.
C3_BalancesNonNegative ==
    \A k \in AccountKeys : IsAccount(accountState, k) => Balance(accountState, k).val >= 0

\* C9: the set of entries of the account index is the set of account numbers
\* created by init_account and not removed by Delete since.
C9_IndexIsLiveAccounts ==
    {AccountIndex(accountState)[i] : i \in 1..Len(AccountIndex(accountState))} = accountLive

\* C10: the account index holds no account number more than once.
C10_IndexHasNoDuplicates ==
    \A i, j \in 1..Len(AccountIndex(accountState)) :
        AccountIndex(accountState)[i] = AccountIndex(accountState)[j] => i = j

(***************************************************************************)
(* Properties of the invoice chaincode.                                    *)
(***************************************************************************)
IsInvoice(v) == v.t = "invoice"

\* The number of a stored status: CREATED 0, OFFERED 1, ACCEPTED 2.
StatusNumber(status) == IF status = "2" THEN 2 ELSE IF status = "1" THEN 1 ELSE 0

\* C4: the status of a stored invoice stays or advances by one step at each
\* call: it never decreases, never skips a state and never leaves ACCEPTED.
C4_StatusAdvancesByOneStep ==
    [][\A k \in InvoiceKeys :
         IsInvoice(invoiceState[k])
         => /\ IsInvoice(invoiceState'[k])
            /\ \/ invoiceState'[k].status = invoiceState[k].status
               \/ StatusNumber(invoiceState'[k].status)
                    = StatusNumber(invoiceState[k].status) + 1]_vars

\* C5: accept_trade on a stored invoice whose status is not OFFERED fails
\* and leaves the stored record as it was.
C5_AcceptNeedsOffered ==
    [][(/\ invoiceCall'.fn = "accept_trade"
        /\ Len(invoiceCall'.args) >= 2
        /\ IsInvoice(invoiceState[invoiceCall'.args[1]])
        /\ invoiceState[invoiceCall'.args[1]].status # "1")
        => (/\ invoiceCall'.err # ""
            /\ invoiceState'[invoiceCall'.args[1]] = invoiceState[invoiceCall'.args[1]])]_vars

\* C6: offer_trade on a stored invoice whose status is not CREATED fails and
\* leaves the stored discount and status as they were.
C6_OfferNeedsCreated ==
    [][(/\ invoiceCall'.fn = "offer_trade"
        /\ Len(invoiceCall'.args) >= 3
        /\ IsInvoice(invoiceState[invoiceCall'.args[1]])
        /\ invoiceState[invoiceCall'.args[1]].status # "0")
        => (/\ invoiceCall'.err # ""
            /\ IsInvoice(invoiceState'[invoiceCall'.args[1]])
            /\ invoiceState'[invoiceCall'.args[1]].discount
                 = invoiceState[invoiceCall'.args[1]].discount
            /\ invoiceState'[invoiceCall'.args[1]].status
                 = invoiceState[invoiceCall'.args[1]].status)]_vars

\* C7: once accept_trade has bound the buyer of an invoice (the invoice is
\* ACCEPTED and names a buyer), no later call changes the buyer field.
C7_BuyerImmutableOnceBound ==
    [][\A k \in InvoiceKeys :
         (/\ IsInvoice(invoiceState[k])
          /\ invoiceState[k].status = "2"
          /\ invoiceState[k].buyer \notin {"", "UNDEFINED"})
         => (/\ IsInvoice(invoiceState'[k])
             /\ invoiceState'[k].buyer = invoiceState[k].buyer)]_vars

\* C8: offer_trade and accept_trade leave invoiceid, amount, currency,
\* supplier, payer and duedate of every stored invoice as they were;
\* offer_trade leaves its buyer and accept_trade its discount as they were.
C8_OfferAcceptFrame ==
    [][\A k \in InvoiceKeys :
         (invoiceCall'.fn \in {"offer_trade", "accept_trade"} /\ IsInvoice(invoiceState[k]))
         => (/\ IsInvoice(invoiceState'[k])
             /\ invoiceState'[k].invoiceid = invoiceState[k].invoiceid
             /\ invoiceState'[k].amount = invoiceState[k].amount
             /\ invoiceState'[k].currency = invoiceState[k].currency
             /\ invoiceState'[k].supplier = invoiceState[k].supplier
             /\ invoiceState'[k].payer = invoiceState[k].payer
             /\ invoiceState'[k].duedate = invoiceState[k].duedate
             /\ (invoiceCall'.fn = "offer_trade"
                   => invoiceState'[k].buyer = invoiceState[k].buyer)
             /\ (invoiceCall'.fn = "accept_trade"
                   => invoiceState'[k].discount = invoiceState[k].discount))]_vars

InitAccountCalled == accountCall'.fn = "init_account"

\* C11: init_account on an account number that was created and not deleted
\* fails (with the already-exists error when the other arguments are well
\* formed) and leaves the whole store, the account record and the account
\* index included, unchanged.
C11_InitAccountExistingFails ==
    [][(InitAccountCalled /\ Len(accountCall'.args) = 4 /\
        accountCall'.args[1] \in accountLive)
       => (/\ accountCall'.err # ""
           /\ (accountCall'.args \in InitAccountArgs /\ Len(accountCall'.args[2]) > 0 /\
               Len(accountCall'.args[3]) > 0 /\ ParseFloat(accountCall'.args[4]).ok
               => accountCall'.err = "This account arleady exists")
           /\ accountState' = accountState)]_vars

CreateCalled == invoiceCall'.fn = "create_invoice" /\ Len(invoiceCall'.args) >= 4
CreateId == invoiceCall'.args[1]
CreateSupplierRole == StringOf(invoiceState[invoiceCall'.args[3]])
CreatePayerRole == StringOf(invoiceState[invoiceCall'.args[4]])

\* C12: create_invoice on an invoice id under which a record is stored fails
\* with the already-exists error and leaves the store, the existing record
\* and the invoice index included, unchanged.
C12_CreateExistingFails ==
    [][(CreateCalled /\ invoiceState[CreateId].t # "nil")
       => (/\ invoiceCall'.err = "Invoice already exists"
           /\ invoiceState' = invoiceState)]_vars

\* C13: create_invoice on a fresh invoice id, with a supplier whose stored
\* role is not "supplier" or a payer whose stored role is not "payer", fails
\* with the permission-denied error and writes nothing; and it writes only
\* when both roles are right.
C13_CreateNeedsRoles ==
    [][CreateCalled
       => (/\ (invoiceState[CreateId].t = "nil" /\ CreateSupplierRole # SUPPLIER)
               => (/\ invoiceCall'.err =
                        PermissionDenied("create_invoice", CreateSupplierRole, SUPPLIER)
                   /\ invoiceState' = invoiceState)
           /\ (invoiceState[CreateId].t = "nil" /\ CreateSupplierRole = SUPPLIER /\
               CreatePayerRole # PAYER)
               => (/\ invoiceCall'.err =
                        PermissionDenied("create_invoice", CreatePayerRole, PAYER)
                   /\ invoiceState' = invoiceState)
           /\ invoiceState' # invoiceState
               => (CreateSupplierRole = SUPPLIER /\ CreatePayerRole = PAYER))]_vars

\* A create_invoice call that returned no error.
CreateSucceeded == CreateCalled /\ invoiceCall'.err = ""

\* C14: after a successful create_invoice(invoiceId, amount, supplier, payer)
\* the record under invoiceId has status 0, buyer and discount "UNDEFINED",
\* the given amount, supplier and payer, and invoiceId is the last entry of
\* "invoiceIDs".
C14_CreateStoresCreatedInvoice ==
    [][CreateSucceeded
       => (/\ IsInvoice(invoiceState'[CreateId])
           /\ LET inv == UnmarshalInvoice(invoiceState'[CreateId]).inv
                  ids == UnmarshalHolder(invoiceState'[invoiceIDsKey]).invoices
              IN /\ inv.Status = "0" /\ inv.Buyer = "UNDEFINED" /\ inv.Discount = "UNDEFINED"
                 /\ inv.InvoiceId = CreateId
                 /\ inv.Amount = invoiceCall'.args[2]
                 /\ inv.Supplier = invoiceCall'.args[3]
                 /\ inv.Payer = invoiceCall'.args[4]
                 /\ Len(ids) > 0 /\ ids[Len(ids)] = CreateId)]_vars

OfferCalled == invoiceCall'.fn = "offer_trade" /\ Len(invoiceCall'.args) >= 3
OfferId == invoiceCall'.args[1]
OfferCaller == invoiceCall'.args[3]
StoredInvoice(st, id) == UnmarshalInvoice(st[id]).inv

\* C15: offer_trade by a caller other than the supplier recorded on the stored
\* invoice fails with the permission-denied error and leaves the store, the
\* invoice's status and discount included, unchanged.
C15_OfferBySupplierOnly ==
    [][(OfferCalled /\ IsInvoice(invoiceState[OfferId]) /\
        OfferCaller # StoredInvoice(invoiceState, OfferId).Supplier)
       => (/\ invoiceCall'.err =
                PermissionDenied("offer_trade", OfferCaller,
                                 StoredInvoice(invoiceState, OfferId).Supplier)
           /\ invoiceState' = invoiceState)]_vars

\* C15 witness: an offer by a registered buyer on the created invoice of
\* supplier "sup" was denied and the invoice is still created.
C15_Witness ==
    /\ invoiceCall.fn = "offer_trade"
    /\ invoiceCall.args = <<"inv1", "7.00", "b1">>
    /\ invoiceCall.err = PermissionDenied("offer_trade", "b1", "sup")
    /\ IsInvoice(invoiceState["inv1"])
    /\ StoredInvoice(invoiceState, "inv1").Status = "0"
    /\ StoredInvoice(invoiceState, "inv1").Discount = "UNDEFINED"

AcceptCalled == invoiceCall'.fn = "accept_trade" /\ Len(invoiceCall'.args) >= 2
AcceptId == invoiceCall'.args[1]
AcceptCaller == invoiceCall'.args[2]

\* The first part of C16: accept_trade by a caller whose stored role is not
\* "buyer" fails with the permission-denied error and leaves the store unchanged.
AcceptByBuyerOnly ==
    [][(AcceptCalled /\ StringOf(invoiceState[AcceptCaller]) # BUYER)
       => (/\ invoiceCall'.err =
                PermissionDenied("offer_trade", StringOf(invoiceState[AcceptCaller]), BUYER)
           /\ invoiceState' = invoiceState)]_vars

\* C16: the buyer field of every stored invoice is "UNDEFINED" or a principal
\* whose stored role is "buyer" (accept_trade being denied to every other caller).
C16_BuyerIsUndefinedOrBuyerRole ==
    \A k \in InvoiceKeys :
        IsInvoice(invoiceState[k])
        => LET b == StoredInvoice(invoiceState, k).Buyer IN
           \/ b = "UNDEFINED"
           \/ b \in InvoiceKeys /\ StringOf(invoiceState[b]) = BUYER

\* C17: a successful offer_trade by the invoice's supplier on a stored invoice
\* of status 0 stores the given discount and sets the status to 1.
C17_OfferStoresDiscount ==
    [][(OfferCalled /\ invoiceCall'.err = "" /\ IsInvoice(invoiceState[OfferId]) /\
        StoredInvoice(invoiceState, OfferId).Status = "0" /\
        OfferCaller = StoredInvoice(invoiceState, OfferId).Supplier)
       => (/\ IsInvoice(invoiceState'[OfferId])
           /\ StoredInvoice(invoiceState', OfferId).Discount = invoiceCall'.args[2]
           /\ StoredInvoice(invoiceState', OfferId).Status = "1")]_vars

\* C17 witness: the supplier's offer on the created invoice (the one of amount
\* "100.00") succeeded, and the invoice is offered at the given discount.
C17_Witness ==
    /\ invoiceCall.fn = "offer_trade"
    /\ invoiceCall.args = <<"inv1", "7.00", "sup">>
    /\ invoiceCall.err = ""
    /\ IsInvoice(invoiceState["inv1"])
    /\ StoredInvoice(invoiceState, "inv1").Amount = "100.00"
    /\ StoredInvoice(invoiceState, "inv1").Status = "1"
    /\ StoredInvoice(invoiceState, "inv1").Discount = "7.00"

\* The first part of C18: a successful accept_trade by a buyer-role caller on
\* a stored invoice of status 1 sets the buyer to the caller and the status to 2.
AcceptBindsBuyer ==
    [][(AcceptCalled /\ invoiceCall'.err = "" /\ IsInvoice(invoiceState[AcceptId]) /\
        StoredInvoice(invoiceState, AcceptId).Status = "1" /\
        StringOf(invoiceState[AcceptCaller]) = BUYER)
       => (/\ IsInvoice(invoiceState'[AcceptId])
           /\ StoredInvoice(invoiceState', AcceptId).Buyer = AcceptCaller
           /\ StoredInvoice(invoiceState', AcceptId).Status = "2")]_vars

\* C18: after the sequence create_invoice, offer_trade by the supplier,
\* accept_trade by a buyer, the invoice is stored with status 2 and the
\* accepting caller as its buyer.
C18_CreateOfferAcceptEndsAccepted ==
    (/\ invoiceCall.fn = "accept_trade"
     /\ invoiceCall.before.fn = "offer_trade"
     /\ invoiceCall.before.before.fn = "create_invoice")
    => (/\ IsInvoice(invoiceState[invoiceCall.args[1]])
        /\ StoredInvoice(invoiceState, invoiceCall.args[1]).Status = "2"
        /\ StoredInvoice(invoiceState, invoiceCall.args[1]).Buyer = invoiceCall.args[2])

(***************************************************************************)
(* Properties of the queries.                                              *)
(***************************************************************************)
IsInvoice1(v) == v.t = "invoice1"

\* The caller is the supplier, the buyer or the payer recorded on the invoice.
OnInvoice(inv, caller) ==
    inv.Supplier = caller \/ inv.Buyer = caller \/ inv.Payer = caller

\* C19: get_invoice_details on a stored invoice returns the full record if
\* the caller is its supplier, buyer or payer, and fails with the
\* permission-denied error for every other caller.
C19_DetailsForPartiesOnly ==
    (/\ invoiceCall.fn = "get_invoice_details"
     /\ Len(invoiceCall.args) = 1
     /\ IsInvoice1(invoiceState[invoiceCall.args[1]]))
    => LET inv == UnmarshalInvoice1(invoiceState[invoiceCall.args[1]]).inv IN
       IF OnInvoice(inv, invoiceCall.caller)
       THEN invoiceCall.err = "" /\ invoiceCall.out = InvoiceText1(inv)
       ELSE invoiceCall.err = "Permission Denied. get_invoice_details"

\* What C20 states the list to hold: the texts of the invoices of the index,
\* in its order, that name the caller as supplier, buyer or payer.
VisibleTexts(st, caller) ==
    LET ids == UnmarshalHolder(st[invoiceIDsKey]).invoices
        Visible(id) == OnInvoice(UnmarshalInvoice1(st[id]).inv, caller)
        shown == SelectSeq(ids, Visible)
    IN [i \in 1..Len(shown) |-> InvoiceText1(UnmarshalInvoice1(st[shown[i]]).inv)]

\* C20: get_invoices returns without error the list, in index order, of
\* exactly the indexed invoices on which the caller is supplier, buyer or
\* payer; it is the empty list when there is none.
C20_InvoicesOfCaller ==
    invoiceCall.fn = "get_invoices"
    => (/\ invoiceCall.err = ""
        /\ invoiceCall.out =
              "[" \o JoinTexts(VisibleTexts(invoiceState, invoiceCall.caller)) \o "]")

TransferAmount == ParseFloat(accountCall'.args[3])

\* The errors of transfer_balance that say an account could not be got.
AccountNotFound == {"Failed to get the first account", "Failed to get the second account"}

\* C22: transfer_balance with a numeric amount, called when the from key or
\* the to key holds no account record, fails with a not-found error and
\* writes nothing.
C22_TransferNeedsBothAccounts ==
    [][(TransferCalled /\ Len(accountCall'.args) >= 3 /\ TransferAmount.ok /\
        (~IsAccount(accountState, TransferFrom) \/ ~IsAccount(accountState, TransferTo)))
       => (/\ accountCall'.err \in AccountNotFound
           /\ accountState' = accountState)]_vars

\* C23: transfer_balance with an amount that is not a strictly positive
\* number (not numeric, zero or negative) fails with the validation error of
\* the amount and changes nothing.
C23_TransferNeedsPositiveAmount ==
    [][(TransferCalled /\ Len(accountCall'.args) >= 3 /\
        (~TransferAmount.ok \/ TransferAmount.val <= 0))
       => (/\ accountCall'.err = "3rd argument must be a numeric string"
           /\ accountState' = accountState)]_vars

InitAccountValidation ==
    {"1st argument must be a non-empty string", "2nd argument must be a non-empty string",
     "3rd argument must be a non-empty string", "4rd argument must be a numeric string"}

\* Four arguments of init_account of which the account number, the owner or
\* the currency is empty, or the balance is empty or not a number.
InvalidInitAccount(args) ==
    /\ Len(args) = 4
    /\ (args[1] = "" \/ args[2] = "" \/ args[3] = "" \/ ~ParseFloat(args[4]).ok)

\* C24: init_account whose account number, owner or currency is empty, or
\* whose balance is empty or not numeric, fails with a validation error and
\* writes nothing.
C24_InitAccountValidates ==
    [][(InitAccountCalled /\ InvalidInitAccount(accountCall'.args))
       => (/\ accountCall'.err \in InitAccountValidation
           /\ accountState' = accountState)]_vars

\* C24 witness: with an account in the ledger, init_account with a balance
\* that is not a number was refused.
C24_Witness ==
    /\ accountCall.fn = "init_account"
    /\ InvalidInitAccount(accountCall.args)
    /\ accountCall.args[4] = "abc"
    /\ accountCall.err = "4rd argument must be a numeric string"
    /\ IsAccount(accountState, "a2")

\* C25: a successful init_account(accountNo, owner, currency, balance) stores
\* under accountNo a record with that number, that currency and that balance,
\* and the index after it is the index before it with accountNo added at the
\* end.
C25_InitAccountStoresAndAppends ==
    [][(InitAccountCalled /\ accountCall'.err = "")
       => LET args == accountCall'.args
              res == UnmarshalAccount(accountState'[args[1]])
          IN  /\ IsAccount(accountState', args[1])
              /\ res.AccountNo = args[1]
              /\ res.Currency = args[3]
              /\ ParseFloat(res.Balance) = ParseFloat(args[4])
              /\ AccountIndex(accountState') = Append(AccountIndex(accountState), args[1])]_vars

\* C25 witness: init_account succeeded on a second account number, which is
\* the last of the two index entries.
C25_Witness ==
    /\ accountCall.fn = "init_account"
    /\ accountCall.err = ""
    /\ Len(AccountIndex(accountState)) = 2
    /\ AccountIndex(accountState)[2] = accountCall.args[1]
    /\ AccountIndex(accountState)[1] # accountCall.args[1]
    /\ IsAccount(accountState, accountCall.args[1])

\* C26: in every reachable state, store failures inside init_account
\* included, each account record made by an init_account that returned
\* success and not deleted since has its number in the account index.
C26_CreatedAccountIsIndexed ==
    \A k \in accountLive :
        IsAccount(accountState, k) => FirstIndexOf(AccountIndex(accountState), k) # 0

DeleteCalled == accountCall'.fn = "delete"

\* C27: a successful Delete(key) leaves no record under key and takes from
\* the index its first entry equal to key, the others keeping their order;
\* without such an entry the index keeps its contents; and a second
\* Delete(key) right after it changes nothing more.
C27_DeleteFirstMatchIdempotent ==
    [][(DeleteCalled /\ accountCall'.err = "")
       => LET args == accountCall'.args
              key == args[1]
              before == AccountIndex(accountState)
              i == FirstIndexOf(before, key)
          IN  /\ accountState'[key] = Nil
              /\ AccountIndex(accountState') =
                    (IF i = 0 THEN before ELSE RemoveAt(before, i))
              /\ Delete(accountState', args, 0).st = accountState']_vars

\* No invoice record is stored under id.
InvoiceMissing(st, id) == st[id] = Nil

\* C28, its part about the store: offer_trade and accept_trade called, by any
\* caller, with an invoice id under which nothing is stored write nothing;
\* no key of the store changes, the requested id or another.
C28_MissingInvoiceWritesNothing ==
    [][((OfferCalled \/ AcceptCalled) /\ InvoiceMissing(invoiceState, invoiceCall'.args[1]))
       => invoiceState' = invoiceState]_vars

ArityErrors ==
    {"Incorrect number of arguments. Expecting 3", "Incorrect number of arguments. Expecting 4"}

\* C29, for the account operations with a fixed arity: transfer_balance
\* called with other than three arguments, and init_account called with
\* other than four, fail with the error of a wrong number of arguments and
\* change nothing.
C29_WrongArityFails ==
    [][((TransferCalled /\ Len(accountCall'.args) # 3) \/
        (InitAccountCalled /\ Len(accountCall'.args) # 4))
       => (/\ accountCall'.err \in ArityErrors
           /\ accountState' = accountState)]_vars

\* No GetState comes after a PutState or a DelState in calls.
ReadsBeforeWrites(calls) ==
    \A i, j \in 1..Len(calls) :
        (i < j /\ calls[i].op \in {"PutState", "DelState"}) => calls[j].op # "GetState"

\* C30: in one invocation of Init, init_account or Delete every GetState
\* comes before every PutState and DelState.
C30_ReadsBeforeWrites ==
    [][ReadsBeforeWrites(AccountStoreCalls(accountState, accountCall'.fn, accountCall'.args))]_vars

\* The invocation just made had a store call fail: the call numbered f is
\* one the handler reached.
StoreCallFailed ==
    /\ "f" \in DOMAIN accountCall'
    /\ accountCall'.f \in
          1..Len(AccountStoreCalls(accountState, accountCall'.fn, accountCall'.args))

\* C31: an invocation of init_account or Delete during which a store get,
\* put or delete failed returns an error.
C31_StoreFailureIsReturned ==
    [][StoreCallFailed => accountCall'.err # ""]_vars

\* Key k holds the role of a principal, as Init stores it.
IsRole(st, k) == st[k] \in {Raw(SUPPLIER), Raw(PAYER), Raw(BUYER)}

\* C32: no create_invoice, offer_trade or accept_trade call creates, changes
\* or removes the stored role of a principal.
C32_RolesAreReadOnly ==
    [][\A k \in InvoiceKeys :
          (IsRole(invoiceState, k) \/ IsRole(invoiceState', k))
          => invoiceState'[k] = invoiceState[k]]_vars

\* seq is the beginning of longer.
IsPrefix(seq, longer) ==
    /\ Len(seq) <= Len(longer)
    /\ SubSeq(longer, 1, Len(seq)) = seq

\* C33: an init_account or Delete call whose account number or key is
\* "_accountindex" keeps every entry the account index had, in its place.
C33_IndexKeyIsReserved ==
    [][(/\ accountCall'.fn \in {"init_account", "delete"}
        /\ Len(accountCall'.args) >= 1
        /\ accountCall'.args[1] = accountIndexStr)
       => IsPrefix(AccountIndex(accountState), AccountIndex(accountState'))]_vars

\* What init_account takes for a key without the account: no record, a
\* record that is no account, an account record with another number.
HoldsNoSuchAccount(v, accountNo) ==
    \/ v = Nil
    \/ v.t # "account"
    \/ (v.t = "account" /\ v.accountno # accountNo)

\* C34: init_account with well-formed arguments on a key that holds no
\* record, a record that is no account, or an account record with another
\* account number succeeds, stores the new record over what the key held and
\* appends the account number to the index.
C34_InitAccountOverwrites ==
    [][(/\ InitAccountCalled
        /\ Len(accountCall'.args) = 4
        /\ ~InvalidInitAccount(accountCall'.args)
        /\ HoldsNoSuchAccount(accountState[accountCall'.args[1]], accountCall'.args[1]))
       => LET args == accountCall'.args
              res == UnmarshalAccount(accountState'[args[1]])
          IN  /\ accountCall'.err = ""
              /\ IsAccount(accountState', args[1])
              /\ res.AccountNo = args[1]
              /\ ParseFloat(res.Balance) = ParseFloat(args[4])
              /\ AccountIndex(accountState') = Append(AccountIndex(accountState), args[1])]_vars

\* C34 witness: init_account succeeded on a key that held the account record
\* of another account number.
C34_Witness ==
    /\ accountCall.fn = "init_account"
    /\ accountCall.err = ""
    /\ "was" \in DOMAIN accountCall
    /\ accountCall.was.t = "account"
    /\ accountCall.was.accountno # accountCall.args[1]
    /\ UnmarshalAccount(accountState[accountCall.args[1]]).AccountNo = accountCall.args[1]

\* The invoice index as the chaincode reads it.
InvoiceIndex(st) == UnmarshalHolder(st[invoiceIDsKey]).invoices

\* C35: across create_invoice, offer_trade and accept_trade calls the invoice
\* index keeps its entries in their places; each successful create_invoice
\* adds its invoice id as the one new last entry; and the index changes by
\* nothing else than the successful create_invoice of an id it does not list.
C35_InvoiceIndexGrowsByCreate ==
    [][/\ IsPrefix(InvoiceIndex(invoiceState), InvoiceIndex(invoiceState'))
       /\ CreateSucceeded
             => InvoiceIndex(invoiceState') = Append(InvoiceIndex(invoiceState), CreateId)
       /\ InvoiceIndex(invoiceState') # InvoiceIndex(invoiceState)
             => /\ CreateSucceeded
                /\ \A i \in 1..Len(InvoiceIndex(invoiceState)) :
                      InvoiceIndex(invoiceState)[i] # CreateId]_vars

\* C35 witness: an accept_trade call by a buyer has rewritten the indexed
\* invoice inv1, and the index lists inv1 as before.
C35_Witness ==
    /\ invoiceCall.fn = "accept_trade"
    /\ invoiceCall.args = <<"inv1", "b2">>
    /\ invoiceCall.err = ""
    /\ StoredInvoice(invoiceState, "inv1").Buyer = "b2"
    /\ InvoiceIndex(invoiceState) = <<"inv1">>

\* C36: after a transfer_balance call between two different stored accounts,
\* a failed store put included, the from account is not left debited by the
\* amount unless the to account is credited by it.
C36_TransferWritesBothOrNone ==
    [][(/\ TransferCalled
        /\ Len(accountCall'.args) >= 3
        /\ TransferAmount.ok
        /\ TransferAmount.val # 0
        /\ TransferFrom # TransferTo
        /\ IsAccount(accountState, TransferFrom)
        /\ IsAccount(accountState, TransferTo))
       => (Balance(accountState', TransferFrom).val
              = Balance(accountState, TransferFrom).val - TransferAmount.val
           => Balance(accountState', TransferTo).val
                 = Balance(accountState, TransferTo).val + TransferAmount.val)]_vars

AmountTransferred ==
    /\ amountCall'.fn = "transfer"
    /\ amountCall'.err = ""

\* C37: a successful transfer(userA, userB, amount) between two different
\* users leaves under userA the amount it held less amount, under userB the
\* amount it held plus amount, and every other key as it was.
C37_TransferMovesAmount ==
    [][(AmountTransferred /\ amountCall'.args[1] # amountCall'.args[2])
       => LET userA == amountCall'.args[1]
              userB == amountCall'.args[2]
              amount == ParseFloat(amountCall'.args[3]).val
          IN  /\ AmountOf(amountState', userA).ok
              /\ AmountOf(amountState', userA).val = AmountOf(amountState, userA).val - amount
              /\ AmountOf(amountState', userB).ok
              /\ AmountOf(amountState', userB).val = AmountOf(amountState, userB).val + amount
              /\ \A k \in AmountKeys \ {userA, userB} : amountState'[k] = amountState[k]]_vars

\* C38: a successful transfer_balance(a, a, amount), from an account to
\* itself, leaves the balance of a as it was before the call.
C38_SelfTransferKeepsBalance ==
    [][(TransferCalled /\ accountCall'.err = "" /\ TransferFrom = TransferTo)
       => Balance(accountState', TransferFrom) = Balance(accountState, TransferFrom)]_vars

\* The invoice under id is not accepted and caller is neither its supplier
\* nor its payer.
HiddenFrom(st, id, caller) ==
    /\ IsInvoice1(st[id])
    /\ LET inv == UnmarshalInvoice1(st[id]).inv IN
          inv.Status # 2 /\ inv.Supplier # caller /\ inv.Payer # caller

\* The lists get_invoices may return to caller when it leaves out every
\* invoice hidden from caller: the texts, in index order, of any of the
\* other indexed invoices.
ListsWithoutHidden(st, caller) ==
    LET ids == UnmarshalHolder(st[invoiceIDsKey]).invoices IN
    {"[" \o JoinTexts([i \in 1..Len(SelectSeq(ids, LAMBDA id : id \in S))
                          |-> InvoiceText1(UnmarshalInvoice1(
                                 st[SelectSeq(ids, LAMBDA id : id \in S)[i]]).inv)]) \o "]" :
       S \in SUBSET {ids[i] : i \in {j \in 1..Len(ids) : ~HiddenFrom(st, ids[j], caller)}}}

\* C39: an invoice that is not accepted is shown only to its supplier and
\* its payer: for every other caller get_invoice_details on it is denied
\* and the list of get_invoices leaves it out.
C39_UnacceptedInvoiceIsHidden ==
    /\ (/\ invoiceCall.fn = "get_invoice_details"
         /\ Len(invoiceCall.args) = 1
         /\ HiddenFrom(invoiceState, invoiceCall.args[1], invoiceCall.caller))
        => invoiceCall.err = "Permission Denied. get_invoice_details"
    /\ invoiceCall.fn = "get_invoices"
        => invoiceCall.out \in ListsWithoutHidden(invoiceState, invoiceCall.caller)

====
